---- MODULE Spec2Model ----
(***************************************************************************)
(* State-machine model of the execution and coordination engine of         *)
(* baihu-panel: the worker-pool Scheduler (internal/executor/scheduler.go),*)
(* the server-side event handler and concurrency gate                      *)
(* (internal/services/tasks/executor_service.go) and the TinyLog           *)
(* streaming log collector (package tasks, TinyLog).                       *)
(***************************************************************************)
EXTENDS Integers, Sequences, FiniteSets, TLC

(***************************************************************************)
(* Bounds of the model.                                                    *)
(***************************************************************************)
\* number of bytes written to the TinyLog
MaxInput == 4
\* number of Subscribe calls on the TinyLog
MaxSubs == 2
\* number of dispatches (API calls / cron ticks) explored
MaxReqs == 2
\* SchedulerConfig.WorkerCount of the explored configuration
WorkerCount == 1
\* SchedulerConfig.QueueSize of the explored configuration
QueueSize == 1
\* number of frames in flight to the agent beyond which no stop is requested
MaxFrames == 2
\* number of entries the cron library is asked to create
MaxEntries == 3
\* last second of the explored clock
MaxClock == 4
\* number of bytes the child of the explored run writes
MaxOutput == 3
\* number of WebSocket connections the agent establishes
MaxConns == 2
\* number of UpdateResult calls of the explored history
MaxUpdates == 3
\* largest number a connected frame carries in its scheduler config
MaxConfig == 4

Reqs == 1..MaxReqs
Workers == 1..WorkerCount
NoReq == 0

(***************************************************************************)
(* Tasks of the explored database.  TaskID 0 stands for the empty TaskID   *)
(* of system commands (no Task row); task 1 is a local task whose config   *)
(* has concurrency = 0; task 2 is bound to agent 1 and has concurrency = 1.*)
(***************************************************************************)
SystemTask == 0
LocalTask == 1
AgentTask == 2
TaskIDs == {SystemTask, LocalTask, AgentTask}
DbTasks == {LocalTask, AgentTask}

Concurrency(t) == IF t = LocalTask THEN 0 ELSE 1
IsRemote(t) == t = AgentTask

VARIABLES
    \* ---- Scheduler (scheduler.go:163-174)
    taskQueue,      \* chan *ExecutionRequest, buffered QueueSize
    rateLimiter,    \* time.Tick channel: number of buffered ticks (0 or 1)
    stopCh,         \* TRUE once close(s.stopCh)
    stopPc,         \* position of the caller of Stop: idle / waiting / returned
    wreq,           \* per worker: the request it is processing, NoReq, or exited
    runningTasks,   \* map TaskID -> cancel func (the request whose ctx it cancels)
    \* ---- requests
    nextReq,        \* next unused dispatch id
    reqs,           \* per dispatch: the ExecutionRequest and the position of its run
    calls,          \* per request: how often each handler callback was invoked
    \* ---- coordinator database and indexes
    runningGo,      \* Task.running_go per task: sequence of goroutine ids
    taskLogs,       \* TaskLog rows, indexed by log id
    activeLogs,     \* globalTinyLogManager.logs: log ids with a live TinyLog
    agentState,     \* state of agent 1: enabled / disabled / missing
    \* ---- one TinyLog (package tasks, TinyLog struct)
    tlClosed,       \* l.closed
    tlRegistered,   \* the TinyLog is in globalTinyLogManager.logs
    tlRemainder,    \* l.remainder: bytes of a partial codepoint held back
    tlWriter,       \* bytes buffered in l.writer (bufio.Writer), not yet in the file
    tlFile,         \* bytes of the temporary file; "removed" after os.Remove
    tlSubscribers,  \* l.subscribers: sequence of channels
    tlChans,        \* per channel ever made by Subscribe: state, buffer, holder
    tlInput,        \* history: all bytes accepted by Write so far
    tlLastChunk,    \* history: the last data appended to the file buffer
    tlPath,         \* the temporary file: exists / removed
    tlOutput,       \* the string returned by CompressAndCleanup
    tlRet,          \* result of the last call on the TinyLog
    \* ---- one local run inside executor.ExecuteWithHooks
    taskTimeout,    \* Task.Timeout (minutes) per task of the database
    child,          \* per request: the child process, execCtx and the heartbeat hook
    process,        \* the server process: up / crashed (unrecovered panic)
    stopRet,        \* result of the last StopTaskExecution call
    \* ---- remote runs: the control node's waiters and one agent
    remotePc,       \* per request: position inside ExecuteRemoteForScheduler
    waiters,        \* per log id: no waiter / waiting / the result it was handed
    agentConnected, \* the agent has a WebSocket connection to the control node
    agentInbox,     \* frames sent to the agent, not yet read by it
    serverInbox,    \* task_result frames sent by the agent, not yet handled
    agentRuns,      \* per log id: the run on the agent
    \* ---- CronManager (part_016) and the cron library it drives
    cronEntries,    \* the entries of m.cron: id, task, schedule, next fire time
    entryMap,       \* m.entryMap: task id -> cron entry id (0: no entry)
    nextEntryID,    \* the id the cron library gives to its next entry
    now,            \* the clock, in seconds
    cronRet,        \* result of the last AddTask / ValidateCron call
    lastCall,       \* history: the last CronManager call, when nothing followed it
    \* ---- the output of one child inside ExecuteWithHooks (executor.go:120-240)
    outMode,        \* how the child was started: pty / pipe
    outPc,          \* position of ExecuteWithHooks: none / started / waited / closed / returned
    outChild,       \* the child process: none / running / exited
    outFd,          \* the read side the copier reads (ptyFile / pr): open / closed
    outCopier,      \* the copier goroutine: none / running / done
    outBuf,         \* bytes the child wrote that the copier has not read yet
    outSink,        \* bytes the copier wrote to stdout (the TinyLog)
    outProduced,    \* history: all bytes the child wrote
    \* ---- the agent's task registry (part_000, Agent.tasks) over its CronManager
    agentCache,     \* a.tasks: per task id the cached AgentTask, or none
    updFrame,       \* the tasks frame updateTasks is processing, or processed last
    updTodo,        \* task ids updateTasks has not gone through yet
    \* ---- the agent's WebSocket connection (part_000, wsLoop / heartbeatLoop)
    wsConn,         \* a.wsConn: the number of the current connection, 0 for nil
    wsStopCh,       \* a.wsStopCh: the channel made for that connection, 0 for nil
    closedChs,      \* the per-connection stop channels that were closed
    wsLoopPc,       \* position of wsLoop: idle / reading / sleeping / exited
    agentStopped,   \* a.stopCh is closed
    nextConn,       \* number of the next connection
    hbLoops,        \* per connection: the heartbeatLoop goroutine connectWS started
    \* ---- ExecutorService.results (executor_service.go:600-630)
    results,        \* es.results: sequence of ExecutionResult, oldest first
    resUpdates,     \* history: number of UpdateResult calls made
    \* ---- ExecutorService.scheduler across Reload (executor_service.go:87-105, 469-476)
    esScheduler,    \* es.scheduler: 1 the Scheduler made by NewExecutorService, 2 the one made by Reload
    \* ---- the agent's Scheduler.config (scheduler.go:177-208, 475-496)
    schedConfig,    \* s.config: WorkerCount, QueueSize, RateInterval (ms)
    cfgReloaded,    \* history: the last connected frame made the agent call Reload
    \* ---- callers of Enqueue / EnqueueOrExecute between the send and the callback
    schedPending,   \* requests sent to the queue whose caller has not called OnTaskScheduled yet
    \* ---- the heartbeat goroutine of ExecuteWithHooks (executor.go:210-226)
    hbPc            \* per request: none / waiting (in the select) / ticked (took ticker.C) / stopped

schedVars == <<taskQueue, rateLimiter, stopCh, stopPc, wreq, runningTasks>>
reqVars == <<nextReq, reqs, calls>>
dbVars == <<runningGo, taskLogs, activeLogs, agentState>>
tlVars == <<tlClosed, tlRegistered, tlRemainder, tlWriter, tlFile, tlSubscribers,
            tlChans, tlInput, tlLastChunk, tlPath, tlOutput, tlRet>>
execVars == <<taskTimeout, child, process, stopRet>>
remoteVars == <<remotePc, waiters, agentConnected, agentInbox, serverInbox, agentRuns>>
cronVars == <<cronEntries, entryMap, nextEntryID, now, cronRet, lastCall>>
ioVars == <<outMode, outPc, outChild, outFd, outCopier, outBuf, outSink, outProduced>>
agentTaskVars == <<agentCache, updFrame, updTodo>>
connVars == <<wsConn, wsStopCh, closedChs, wsLoopPc, agentStopped, nextConn, hbLoops>>
resultVars == <<results, resUpdates>>
\* what the CronManager does not touch
reloadVars == <<esScheduler>>
configVars == <<schedConfig, cfgReloaded>>
callerVars == <<schedPending>>
hbVars == <<hbPc>>
calleeVars == <<ioVars, connVars, resultVars, reloadVars, configVars, callerVars, hbVars>>
restVars == <<calleeVars, agentTaskVars>>
coreVars == <<schedVars, reqVars, dbVars, tlVars, execVars, remoteVars, cronVars>>
extVars == <<execVars, remoteVars, cronVars, restVars>>
\* everything but the variables of one section
exceptIoVars == <<coreVars, agentTaskVars, connVars, resultVars, reloadVars, configVars, callerVars, hbVars>>
exceptConnVars == <<coreVars, agentTaskVars, ioVars, resultVars, reloadVars, configVars, callerVars, hbVars>>
exceptResultVars == <<coreVars, agentTaskVars, ioVars, connVars, reloadVars, configVars, callerVars, hbVars>>
exceptReloadVars == <<coreVars, agentTaskVars, ioVars, connVars, resultVars, configVars, callerVars, hbVars>>
exceptConfigVars == <<coreVars, agentTaskVars, ioVars, connVars, resultVars, reloadVars, callerVars, hbVars>>
exceptCallerVars == <<agentTaskVars, ioVars, connVars, resultVars, reloadVars, configVars, hbVars>>
exceptHbVars == <<agentTaskVars, ioVars, connVars, resultVars, reloadVars, configVars, callerVars>>
engineVars == <<schedVars, reqVars, dbVars, extVars>>
vars == <<schedVars, reqVars, dbVars, tlVars, extVars>>

Exited == -1

NewRequest ==
    [task |-> SystemTask, api |-> "none", via |-> "none", pc |-> "new",
     logID |-> 0, goid |-> 0, outcome |-> "none", ctx |-> "none",
     rejectedBy |-> "none", stopSeen |-> FALSE]

\* channels Subscribe can make, and a channel that was not made yet
Chans == 1..MaxSubs
NoChan == [state |-> "unused", buf |-> <<>>]

NoCalls == [scheduled |-> 0, completed |-> 0, failed |-> 0]

SchedInit ==
    /\ taskQueue = <<>>
    /\ rateLimiter = 0
    /\ stopCh = FALSE
    /\ stopPc = "idle"
    /\ wreq = [w \in Workers |-> NoReq]
    /\ runningTasks = [t \in TaskIDs |-> NoReq]
    /\ nextReq = 1
    /\ reqs = [r \in Reqs |-> NewRequest]
    /\ calls = [r \in Reqs |-> NoCalls]
    /\ runningGo = [t \in DbTasks |-> <<>>]
    /\ taskLogs = <<>>
    /\ activeLogs = {}

\* NewTinyLog (part_011:64-79): an empty temporary file, no subscriber,
\* registered in the global manager
TinyLogInit ==
    /\ tlClosed = FALSE
    /\ tlRegistered = TRUE
    /\ tlRemainder = <<>>
    /\ tlWriter = <<>>
    /\ tlFile = <<>>
    /\ tlSubscribers = <<>>
    /\ tlChans = [c \in Chans |-> NoChan]
    /\ tlInput = <<>>
    /\ tlLastChunk = <<>>
    /\ tlPath = "exists"
    /\ tlOutput = <<>>
    /\ tlRet = "none"

\* no child was started, no deadline has expired, no hook has run
NoChild ==
    [state |-> "none", end |-> "none", exitCode |-> 0, execCtx |-> "none",
     ctxAtEnd |-> "none", hb |-> "none"]

ExecInit ==
    /\ child = [r \in Reqs |-> NoChild]
    /\ process = "up"
    /\ stopRet = "none"

\* log ids: every dispatch creates at most one TaskLog row
LogIDs == 1..MaxReqs

RemoteInit ==
    /\ remotePc = [r \in Reqs |-> "none"]
    /\ waiters = [l \in LogIDs |-> "none"]
    /\ agentInbox = <<>>
    /\ serverInbox = <<>>
    /\ agentRuns = [l \in LogIDs |-> "none"]

\* history: no CronManager call, or something happened since the last one
NoCall == [op |-> "none", task |-> 0, expr |-> "", again |-> FALSE]

\* NewCronManager: no entry, the clock at 0
CronInit ==
    /\ cronEntries = {}
    /\ entryMap = [t \in DbTasks |-> 0]
    /\ nextEntryID = 1
    /\ now = 0
    /\ cronRet = "none"
    /\ lastCall = NoCall

\* ExecuteWithHooks has not started the child
OutputInit ==
    /\ outMode = "none"
    /\ outPc = "none"
    /\ outChild = "none"
    /\ outFd = "none"
    /\ outCopier = "none"
    /\ outBuf = <<>>
    /\ outSink = <<>>
    /\ outProduced = <<>>

\* no task under a task id (in a.tasks, in a frame)
NoTask == [listed |-> FALSE, schedule |-> "", command |-> "", enabled |-> FALSE]

\* NewAgent: a.tasks is empty; no frame was handled, which leaves the agent
\* as a frame without tasks does
AgentTasksInit ==
    /\ agentCache = [t \in DbTasks |-> NoTask]
    /\ updFrame = [t \in DbTasks |-> NoTask]
    /\ updTodo = {}

Conns == 1..MaxConns

\* the heartbeatLoop of a connection that was not established yet
NoLoop == [pc |-> "none", ch |-> 0, sentOn |-> {}]

\* NewAgent: no connection, wsLoop about to connect
ConnInit ==
    /\ wsConn = 0
    /\ wsStopCh = 0
    /\ closedChs = {}
    /\ wsLoopPc = "idle"
    /\ agentStopped = FALSE
    /\ nextConn = 1
    /\ hbLoops = [c \in Conns |-> NoLoop]

\* NewExecutorService: no result was recorded
ResultsInit ==
    /\ results = <<>>
    /\ resUpdates = 0

\* NewExecutorService: es.scheduler is the Scheduler initScheduler made
ReloadInit == esScheduler = 1

\* defaults of NewScheduler (scheduler.go:178-186), RateInterval in ms
DefaultWorkerCount == 4
DefaultQueueSize == 100
DefaultRateInterval == 200

\* NewScheduler: a value <= 0 is replaced by its default
NewSchedulerConfig(cfg) ==
    [workerCount |-> IF cfg.workerCount <= 0 THEN DefaultWorkerCount ELSE cfg.workerCount,
     queueSize |-> IF cfg.queueSize <= 0 THEN DefaultQueueSize ELSE cfg.queueSize,
     rateInterval |-> IF cfg.rateInterval <= 0 THEN DefaultRateInterval ELSE cfg.rateInterval]

\* the config NewAgent hands to NewScheduler (part_000:132-138): NumCPU
\* workers, 100 slots, 100 ms
AgentQueueSize == 100
AgentRateInterval == 100

\* one CPU: the other counts are reached through connected frames
ConfigInit ==
    /\ schedConfig = NewSchedulerConfig([workerCount |-> 1, queueSize |-> AgentQueueSize,
                                         rateInterval |-> AgentRateInterval])
    /\ cfgReloaded = FALSE

\* no caller is inside Enqueue / EnqueueOrExecute
CallerInit == schedPending = {}

\* no heartbeat goroutine was started
HeartbeatInit == hbPc = [r \in Reqs |-> "none"]

RestInit ==
    /\ ConfigInit
    /\ CallerInit
    /\ HeartbeatInit
    /\ OutputInit
    /\ AgentTasksInit
    /\ ConnInit
    /\ ResultsInit
    /\ ReloadInit

ExtInit ==
    /\ taskTimeout = [t \in DbTasks |-> 0]
    /\ ExecInit
    /\ agentConnected = TRUE
    /\ RemoteInit
    /\ CronInit
    /\ RestInit

Init ==
    /\ SchedInit
    /\ agentState = "enabled"
    /\ TinyLogInit
    /\ ExtInit

(***************************************************************************)
(* Helpers                                                                 *)
(***************************************************************************)
\* utils.GetGoroutineID() of the goroutine that runs executeTask for r: a
\* worker keeps its goroutine for every request it processes; any other
\* goroutine (the fallback goroutine of EnqueueOrExecute, the caller of
\* ExecuteSync) is a goroutine of its own per request.
GoroutineID(r) ==
    IF \E w \in Workers : wreq[w] = r
    THEN CHOOSE w \in Workers : wreq[w] = r
    ELSE WorkerCount + r

RemoveGo(goids, g) == SelectSeq(goids, LAMBDA x : x # g)

\* variant of QueueFull that is off by one: the send is still tried when the
\* buffer already holds QueueSize requests
QueueFullOffByOne == Len(taskQueue) > QueueSize

\* default: branch of the select on s.taskQueue <- req
QueueFull == Len(taskQueue) >= QueueSize

\* the anonymous func of the worker loop returns: the worker selects again
Release(r) == [w \in Workers |-> IF wreq[w] = r THEN NoReq ELSE wreq[w]]

(***************************************************************************)
(* Concurrency gate (ExecutorService.CheckConcurrency / AddRunningGo)      *)
(***************************************************************************)
\* variant of the gate that never looks at running_go
GateAlwaysAllows(t) == TRUE

GateAllows(t) == ~(Concurrency(t) = 0 /\ Len(runningGo[t]) > 0)

CheckConcurrency(t) == ~(Concurrency(t) = 0 /\ Len(runningGo[t]) > 0)

\* variant of OnTaskExecuting that leaves the created row as it was inserted
GateRejectStatusRunning == "running"

\* status saved on the log row when AddRunningGo rejects the run
GateRejectStatus == "failed"

(***************************************************************************)
(* Scheduler.Enqueue / EnqueueOrExecute / ExecuteSync                      *)
(***************************************************************************)
\* case s.taskQueue <- req: s.handler.OnTaskScheduled(req)
SendToQueue(r, t, api) ==
    /\ taskQueue' = Append(taskQueue, r)
    /\ reqs' = [reqs EXCEPT ![r] = [@ EXCEPT !.task = t, !.api = api, !.pc = "queued"]]
    /\ calls' = [calls EXCEPT ![r].scheduled = @ + 1]

\* go s.executeTask(req)  /  return s.executeTask(req)
EnterExecuteTask(r, t, api, via) ==
    /\ reqs' = [reqs EXCEPT ![r] = [@ EXCEPT !.task = t, !.api = api,
                                              !.pc = "executing", !.via = via]]
    /\ UNCHANGED <<taskQueue, calls>>

Enqueue(t) ==
    /\ nextReq <= MaxReqs
    /\ nextReq' = nextReq + 1
    /\ IF ~QueueFull
       THEN SendToQueue(nextReq, t, "enqueue")
       ELSE /\ reqs' = [reqs EXCEPT ![nextReq] = [@ EXCEPT !.task = t, !.api = "enqueue",
                                                            !.pc = "rejected",
                                                            !.rejectedBy = "queue"]]
            /\ UNCHANGED <<taskQueue, calls>>
    /\ UNCHANGED <<rateLimiter, stopCh, stopPc, wreq, runningTasks, dbVars, tlVars, extVars>>

EnqueueOrExecute(t) ==
    /\ nextReq <= MaxReqs
    /\ nextReq' = nextReq + 1
    /\ IF ~QueueFull
       THEN SendToQueue(nextReq, t, "orexec")
       ELSE EnterExecuteTask(nextReq, t, "orexec", "fallback")
    /\ UNCHANGED <<rateLimiter, stopCh, stopPc, wreq, runningTasks, dbVars, tlVars, extVars>>

ExecuteSync ==
    /\ nextReq <= MaxReqs
    /\ nextReq' = nextReq + 1
    /\ EnterExecuteTask(nextReq, SystemTask, "sync", "sync")
    /\ UNCHANGED <<rateLimiter, stopCh, stopPc, wreq, runningTasks, dbVars, tlVars, extVars>>

(***************************************************************************)
(* Dispatch sources of the server                                          *)
(***************************************************************************)
\* the cron entry of a local task fires (CronManager.AddTask closure)
CronTick(t) == EnqueueOrExecute(t)

\* ExecutorService.ExecuteTask: read-only pre-check, then EnqueueOrExecute
ExecuteTask(t) ==
    IF CheckConcurrency(t)
    THEN EnqueueOrExecute(t)
    ELSE /\ nextReq <= MaxReqs
         /\ nextReq' = nextReq + 1
         /\ reqs' = [reqs EXCEPT ![nextReq] = [@ EXCEPT !.task = t, !.pc = "refused",
                                                         !.rejectedBy = "precheck"]]
         /\ UNCHANGED <<schedVars, calls, dbVars, tlVars, extVars>>

(***************************************************************************)
(* Scheduler.worker (scheduler.go:275-295) and the rate limiter            *)
(***************************************************************************)
\* time.Tick: a tick is buffered when the channel is empty, dropped otherwise
RateTick ==
    /\ rateLimiter = 0
    /\ rateLimiter' = 1
    /\ UNCHANGED <<taskQueue, stopCh, stopPc, wreq, runningTasks, reqVars, dbVars, tlVars, extVars>>

\* variant of the receive that leaves the request in the queue
WorkerReceiveKeepingQueued(w) ==
    /\ wreq[w] = NoReq
    /\ taskQueue # <<>>
    /\ LET r == Head(taskQueue) IN
       /\ wreq' = [wreq EXCEPT ![w] = r]
       /\ reqs' = [reqs EXCEPT ![r] = [@ EXCEPT !.pc = "limited", !.via = "worker",
                                                !.stopSeen = FALSE]]
    /\ UNCHANGED <<taskQueue, rateLimiter, stopCh, stopPc, runningTasks, nextReq, calls, dbVars, tlVars, extVars>>

\* case req := <-s.taskQueue
WorkerReceive(w) ==
    /\ wreq[w] = NoReq
    /\ taskQueue # <<>>
    /\ LET r == Head(taskQueue) IN
       /\ taskQueue' = Tail(taskQueue)
       /\ wreq' = [wreq EXCEPT ![w] = r]
       /\ reqs' = [reqs EXCEPT ![r] = [@ EXCEPT !.pc = "limited", !.via = "worker",
                                                !.stopSeen = FALSE]]
    /\ UNCHANGED <<rateLimiter, stopCh, stopPc, runningTasks, nextReq, calls, dbVars, tlVars, extVars>>

\* variant of the worker that starts the run in a goroutine of its own
\* (go s.executeTask(req)) and goes back to the select at once
WorkerRateDetached(w) ==
    /\ wreq[w] \in Reqs
    /\ reqs[wreq[w]].pc = "limited"
    /\ rateLimiter = 1
    /\ rateLimiter' = 0
    /\ reqs' = [reqs EXCEPT ![wreq[w]].pc = "executing"]
    /\ wreq' = [wreq EXCEPT ![w] = NoReq]
    /\ UNCHANGED <<taskQueue, stopCh, stopPc, runningTasks, nextReq, calls, dbVars, tlVars, extVars>>

\* variant of the worker that calls executeTask without the receive from
\* s.rateLimiter
WorkerRateUnlimited(w) ==
    /\ wreq[w] \in Reqs
    /\ reqs[wreq[w]].pc = "limited"
    /\ reqs' = [reqs EXCEPT ![wreq[w]].pc = "executing"]
    /\ UNCHANGED <<taskQueue, rateLimiter, stopCh, stopPc, wreq, runningTasks, nextReq, calls, dbVars, tlVars, extVars>>

\* <-s.rateLimiter ; s.executeTask(req)
WorkerRate(w) ==
    /\ wreq[w] \in Reqs
    /\ reqs[wreq[w]].pc = "limited"
    /\ rateLimiter = 1
    /\ rateLimiter' = 0
    /\ reqs' = [reqs EXCEPT ![wreq[w]].pc = "executing"]
    /\ UNCHANGED <<taskQueue, stopCh, stopPc, wreq, runningTasks, nextReq, calls, dbVars, tlVars, extVars>>

\* case <-s.stopCh: return (defer s.wg.Done())
WorkerExit(w) ==
    /\ wreq[w] = NoReq
    /\ stopCh
    /\ wreq' = [wreq EXCEPT ![w] = Exited]
    /\ UNCHANGED <<taskQueue, rateLimiter, stopCh, stopPc, runningTasks, reqVars, dbVars, tlVars, extVars>>

(***************************************************************************)
(* Scheduler.Stop (scheduler.go:234-238)                                   *)
(***************************************************************************)
\* close(s.stopCh)
StopClose ==
    /\ stopPc = "idle"
    /\ stopCh' = TRUE
    /\ stopPc' = "waiting"
    /\ UNCHANGED <<taskQueue, rateLimiter, wreq, runningTasks, reqVars, dbVars, tlVars, extVars>>

\* s.wg.Wait() returns: every worker has called wg.Done()
StopReturn ==
    /\ stopPc = "waiting"
    /\ \A w \in Workers : wreq[w] = Exited
    /\ stopPc' = "returned"
    /\ UNCHANGED <<taskQueue, rateLimiter, stopCh, wreq, runningTasks, reqVars, dbVars, tlVars, extVars>>

(***************************************************************************)
(* Scheduler.StopTask (scheduler.go:444-455)                               *)
(***************************************************************************)
\* history: which queued requests of task t saw a StopTask(t) while queued
MarkStopSeen(rs, t) ==
    [r \in Reqs |-> IF rs[r].task = t /\ rs[r].pc = "queued"
                    THEN [rs[r] EXCEPT !.stopSeen = TRUE] ELSE rs[r]]

\* cancel(): ctx.Err() becomes Canceled unless the context already ended; the
\* run reads it when it builds its result, so the call has no effect on a run
\* that is already unwinding
Cancel(rs, owner) ==
    IF owner # NoReq /\ rs[owner].pc \in {"running", "returned"}
                     /\ rs[owner].ctx # "deadline"
    THEN [rs EXCEPT ![owner].ctx = "canceled"]
    ELSE rs

\* variant of StopTask that also drops the queued requests of the task
StopTaskDequeue(t) ==
    /\ taskQueue' = SelectSeq(taskQueue, LAMBDA r : reqs[r].task # t)
    /\ reqs' = MarkStopSeen(Cancel(reqs, runningTasks[t]), t)
    /\ UNCHANGED <<rateLimiter, stopCh, stopPc, wreq, runningTasks, nextReq, calls, dbVars, tlVars, extVars>>

StopTask(t) ==
    /\ reqs' = MarkStopSeen(Cancel(reqs, runningTasks[t]), t)
    /\ UNCHANGED <<schedVars, nextReq, calls, dbVars, tlVars, extVars>>

(***************************************************************************)
(* ServerSchedulerHandler (executor_service.go:107-307)                    *)
(***************************************************************************)
\* TaskLogService.CreateEmptyLog: the row inserted for a run, status running
CreateEmptyLog(t) == [task |-> t, status |-> "running"]

\* TaskLogService.SaveTaskLog: the row with the given id is written back
SaveTaskLog(rows, id, status) == [rows EXCEPT ![id].status = status]

\* TaskLogService.ProcessTaskCompletion: the finished row is saved
ProcessTaskCompletion(rows, id, status) == SaveTaskLog(rows, id, status)

\* OnTaskExecuting: CreateEmptyLog, AddRunningGo, NewTinyLog.  createOk and
\* tinyOk are the outcomes of the database insert and of os.CreateTemp.
HandlerExecuting(r, createOk, tinyOk) ==
    LET t == reqs[r].task
        id == Len(taskLogs) + 1
        g == GoroutineID(r)
    IN  IF t \notin DbTasks
        THEN \* task == nil: return nil, nil, nil
             /\ reqs' = [reqs EXCEPT ![r].pc = "prepared"]
             /\ UNCHANGED <<runningGo, taskLogs, activeLogs>>
        ELSE IF ~createOk
        THEN \* CreateEmptyLog failed: req.LogID stays 0
             /\ reqs' = [reqs EXCEPT ![r].pc = "prefailed"]
             /\ UNCHANGED <<runningGo, taskLogs, activeLogs>>
        ELSE IF ~GateAllows(t)
        THEN \* AddRunningGo returned "task is running": the row is saved as failed
             /\ taskLogs' = SaveTaskLog(Append(taskLogs, CreateEmptyLog(t)), id,
                                        GateRejectStatus)
             /\ reqs' = [reqs EXCEPT ![r] = [@ EXCEPT !.pc = "prefailed", !.logID = id,
                                                      !.rejectedBy = "gate"]]
             /\ UNCHANGED <<runningGo, activeLogs>>
        ELSE IF ~tinyOk
        THEN \* NewTinyLog failed: RemoveRunningGo rolls the token back
             /\ taskLogs' = Append(taskLogs, CreateEmptyLog(t))
             /\ runningGo' = [runningGo EXCEPT ![t] = RemoveGo(Append(@, g), g)]
             /\ reqs' = [reqs EXCEPT ![r] = [@ EXCEPT !.pc = "prefailed", !.logID = id,
                                                      !.goid = g]]
             /\ UNCHANGED activeLogs
        ELSE /\ taskLogs' = Append(taskLogs, CreateEmptyLog(t))
             /\ runningGo' = [runningGo EXCEPT ![t] = Append(@, g)]
             /\ activeLogs' = activeLogs \cup {id}
             /\ reqs' = [reqs EXCEPT ![r] = [@ EXCEPT !.pc = "prepared", !.logID = id,
                                                      !.goid = g]]

\* the part of OnTaskCompleted / OnTaskFailed that finalizes the row:
\* RemoveRunningGo, CompressAndCleanup of the TinyLog, ProcessTaskCompletion
FinalizeRun(r, status) ==
    IF reqs[r].logID = 0
    THEN UNCHANGED <<runningGo, taskLogs, activeLogs>>
    ELSE LET t == reqs[r].task
             id == reqs[r].logID
         IN  /\ activeLogs' = activeLogs \ {id}
             /\ taskLogs' = ProcessTaskCompletion(taskLogs, id, status)
             /\ runningGo' = IF reqs[r].goid # 0
                             THEN [runningGo EXCEPT ![t] = RemoveGo(@, reqs[r].goid)]
                             ELSE runningGo

HandlerCompleted(r, status) ==
    /\ calls' = [calls EXCEPT ![r].completed = @ + 1]
    /\ FinalizeRun(r, status)

HandlerFailed(r) ==
    /\ calls' = [calls EXCEPT ![r].failed = @ + 1]
    /\ FinalizeRun(r, "failed")

(***************************************************************************)
(* The injected TaskExecutor (scheduler.go:159, 388)                       *)
(***************************************************************************)
\* what s.executor(ctx, req, ...) can do: return a result, a result and an
\* error, no result and an error, neither, or panic
ExecOutcomes == {"result", "result_err", "nil_err", "nil_nil", "panic"}

\* ExecuteRemoteForScheduler: a missing or disabled agent gives (nil, err)
ExecutorOutcomes(r) ==
    IF IsRemote(reqs[r].task) /\ agentState # "enabled"
    THEN {"nil_err"}
    ELSE ExecOutcomes

\* history: the run was refused because its agent is missing or disabled
AgentRejection(r) ==
    IF IsRemote(reqs[r].task) /\ agentState # "enabled" THEN "agent" ELSE "none"

\* "result_failed": a result whose Status is failed, and a nil error
HasResult(o) == o \in {"result", "result_err", "result_failed"}
HasError(o) == o \in {"result_err", "nil_err"}

\* result.Status as executeTask builds it (scheduler.go:396-420)
ResultStatus(r) ==
    LET o == reqs[r].outcome
        base == IF o = "result" THEN "success" ELSE "failed"
    IN  IF HasError(o) /\ reqs[r].ctx = "canceled" THEN "cancelled"
        ELSE IF HasError(o) /\ reqs[r].ctx = "deadline" THEN "timeout"
        ELSE base

(***************************************************************************)
(* Scheduler.executeTask (scheduler.go:298-441), one action per section    *)
(* between which other goroutines can run                                  *)
(***************************************************************************)
\* executeTask has returned: its goroutine, its locals (execResult, execErr,
\* ctx) and the request's metadata are out of reach
Returned(q) ==
    [q EXCEPT !.pc = "done", !.api = "none", !.via = "none", !.goid = 0,
              !.outcome = "none", !.ctx = "none", !.stopSeen = FALSE]

\* the body of executeTask is over (it reported, or it panicked): execResult,
\* execErr and ctx.Err() are not read again, only the deferred calls remain
Unwinding(q) == [q EXCEPT !.pc = "unwinding", !.outcome = "none", !.ctx = "none"]

\* 1. stdout, stderr, err = s.handler.OnTaskExecuting(req)
ExecuteTaskPrepare(r) ==
    /\ reqs[r].pc = "executing"
    /\ \E createOk, tinyOk \in BOOLEAN : HandlerExecuting(r, createOk, tinyOk)
    /\ UNCHANGED <<schedVars, nextReq, calls, agentState, tlVars, extVars>>

\* err != nil: s.handler.OnTaskFailed(req, err); return &ExecutionResult{...}, err
ExecuteTaskPreFailed(r) ==
    /\ reqs[r].pc = "prefailed"
    /\ HandlerFailed(r)
    /\ reqs' = [reqs EXCEPT ![r] = Returned(@)]
    /\ wreq' = Release(r)
    /\ UNCHANGED <<taskQueue, rateLimiter, stopCh, stopPc, runningTasks, nextReq, agentState, tlVars, extVars>>

\* 3./4. OnTaskStarted, context.WithCancel, s.runningTasks[req.TaskID] = cancel
Register(r) ==
    /\ reqs[r].pc = "prepared"
    /\ runningTasks' = [runningTasks EXCEPT ![reqs[r].task] = r]
    /\ reqs' = [reqs EXCEPT ![r].pc = "running"]
    /\ UNCHANGED <<taskQueue, rateLimiter, stopCh, stopPc, wreq, nextReq, calls, dbVars, tlVars, extVars>>

\* execResult, execErr := s.executor(ctx, req, stdoutWriter, stderrWriter)
ExecutorReturns(r) ==
    /\ reqs[r].pc = "running"
    /\ \E o \in ExecutorOutcomes(r) :
          reqs' = [reqs EXCEPT ![r] =
                      IF o = "panic" THEN Unwinding(@)
                      ELSE [@ EXCEPT !.outcome = o, !.pc = "returned",
                                     !.rejectedBy = AgentRejection(r)]]
    /\ UNCHANGED <<schedVars, nextReq, calls, dbVars, tlVars, extVars>>

\* 5./6. build the result, then OnTaskCompleted or OnTaskFailed
Report(r) ==
    /\ reqs[r].pc = "returned"
    /\ IF HasResult(reqs[r].outcome)
       THEN HandlerCompleted(r, ResultStatus(r))
       ELSE IF HasError(reqs[r].outcome)
       THEN HandlerFailed(r)
       ELSE UNCHANGED <<calls, runningGo, taskLogs, activeLogs>>
    /\ reqs' = [reqs EXCEPT ![r] = Unwinding(@)]
    /\ UNCHANGED <<schedVars, nextReq, agentState, tlVars, extVars>>

\* deferred: delete(s.runningTasks, req.TaskID); cancel(); recover()
Deregister(r) ==
    /\ reqs[r].pc = "unwinding"
    /\ runningTasks' = [runningTasks EXCEPT ![reqs[r].task] = NoReq]
    /\ reqs' = [reqs EXCEPT ![r] = Returned(@)]
    /\ wreq' = Release(r)
    /\ UNCHANGED <<taskQueue, rateLimiter, stopCh, stopPc, nextReq, calls, dbVars, tlVars, extVars>>

(***************************************************************************)
(* executor.ExecuteWithHooks (executor.go:70-272) as the executor of a     *)
(* local task (ExecuteDispatcher, executor_service.go:372-383)             *)
(***************************************************************************)
\* req.Timeout: Task.Timeout of the request's task (executor_service.go:513,
\* part_016:94); a request without a Task row carries none
Timeout(r) == IF reqs[r].task \in DbTasks THEN taskTimeout[reqs[r].task] ELSE 0

\* the run is inside the executor call of executeTask with a local executor
InExecutor(r) == reqs[r].pc = "running" /\ ~IsRemote(reqs[r].task)

\* execCtx is done: ctx was cancelled or timed out, or the executor's own
\* deadline (timeout <= 0: 30 minutes) expired
ExecCtxDone(r) == reqs[r].ctx # "none" \/ child[r].execCtx = "deadline"

\* the child process is over: how, with which exit code, and ctx.Err() then
Ended(c, how, code, ctxErr) ==
    [c EXCEPT !.state = "ended", !.end = how, !.exitCode = code, !.ctxAtEnd = ctxErr]

\* pty.Start / cmd.Start: the child runs, or the start fails and the
\* function returns the failed result together with the error
ExecStart(r) ==
    /\ InExecutor(r)
    /\ child[r].state = "none"
    /\ \/ /\ child' = [child EXCEPT ![r].state = "running"]
          /\ UNCHANGED reqs
       \/ /\ child' = [child EXCEPT ![r] = Ended(@, "startfail", 1, reqs[r].ctx)]
          /\ reqs' = [reqs EXCEPT ![r] = [@ EXCEPT !.outcome = "result_err",
                                                   !.pc = "returned"]]
    /\ UNCHANGED <<schedVars, nextReq, calls, dbVars, tlVars, taskTimeout, process, stopRet, remoteVars, cronVars, restVars>>

\* the child exits on its own with exit code 0 or 1
ChildExits(r) ==
    /\ InExecutor(r)
    /\ child[r].state = "running"
    /\ \E code \in {0, 1} :
          child' = [child EXCEPT ![r] = Ended(@, "exit", code, reqs[r].ctx)]
    /\ UNCHANGED <<schedVars, reqVars, dbVars, tlVars, taskTimeout, process, stopRet, remoteVars, cronVars, restVars>>

\* the deadline of ctx (context.WithTimeout, req.Timeout > 0) expires
CtxDeadline(r) ==
    /\ reqs[r].pc \in {"running", "returned"}
    /\ Timeout(r) > 0
    /\ reqs[r].ctx = "none"
    /\ reqs' = [reqs EXCEPT ![r].ctx = "deadline"]
    /\ UNCHANGED <<schedVars, nextReq, calls, dbVars, tlVars, extVars>>

\* the deadline of execCtx expires.  With req.Timeout > 0 it lies behind the
\* deadline of ctx, which ends execCtx first; with timeout <= 0 it is the
\* default of 30 minutes and ctx has no deadline.
ExecDeadline(r) ==
    /\ InExecutor(r)
    /\ child[r].state = "running"
    /\ Timeout(r) <= 0
    /\ child[r].execCtx = "none"
    /\ child' = [child EXCEPT ![r].execCtx = "deadline"]
    /\ UNCHANGED <<schedVars, reqVars, dbVars, tlVars, taskTimeout, process, stopRet, remoteVars, cronVars, restVars>>

\* exec.CommandContext kills the child when execCtx is done
ContextKill(r) ==
    /\ InExecutor(r)
    /\ child[r].state = "running"
    /\ ExecCtxDone(r)
    /\ child' = [child EXCEPT ![r] = Ended(@, "killed", -1, reqs[r].ctx)]
    /\ UNCHANGED <<schedVars, reqVars, dbVars, tlVars, taskTimeout, process, stopRet, remoteVars, cronVars, restVars>>

\* the heartbeat goroutine (no recover): hooks.OnHeartbeat returns, or it
\* panics and the panic ends the process
HeartbeatTick(r) ==
    /\ InExecutor(r)
    /\ child[r].state \in {"running", "ended"}
    /\ child[r].hb = "none"
    /\ \E panics \in BOOLEAN :
          /\ child' = [child EXCEPT ![r].hb = IF panics THEN "panicked" ELSE "beat"]
          /\ process' = IF panics THEN "crashed" ELSE process
    /\ UNCHANGED <<schedVars, reqVars, dbVars, tlVars, taskTimeout, stopRet, remoteVars, cronVars, restVars>>

\* err = cmd.Wait(); the result is built and returned with err
WaitReturns(r) ==
    /\ InExecutor(r)
    /\ child[r].state = "ended"
    /\ reqs' = [reqs EXCEPT ![r] =
                   [@ EXCEPT !.pc = "returned",
                             !.outcome = IF child[r].exitCode = 0 THEN "result"
                                         ELSE "result_err"]]
    /\ UNCHANGED <<schedVars, nextReq, calls, dbVars, tlVars, extVars>>

(***************************************************************************)
(* executor.ExecuteWithHooks (executor.go:120-240): the output of the child *)
(* when stdout and stderr are the same writer (the TinyLog of the run)      *)
(***************************************************************************)
\* the bytes a child writes
OutputBytes == {65, 66}

\* pty.Start(cmd) succeeds and the copier copies from the PTY, or it fails
\* and cmd.Start runs the child on os.Pipe with a copier on the read end
OutStart ==
    /\ outPc = "none"
    /\ \E ptyOk \in BOOLEAN : outMode' = IF ptyOk THEN "pty" ELSE "pipe"
    /\ outPc' = "started"
    /\ outChild' = "running"
    /\ outFd' = "open"
    /\ outCopier' = "running"
    /\ UNCHANGED <<outBuf, outSink, outProduced>>
    /\ UNCHANGED exceptIoVars

\* the child writes a byte to its terminal / to the write end of the pipe
OutChildWrites(b) ==
    /\ outChild = "running"
    /\ Len(outProduced) < MaxOutput
    /\ outBuf' = Append(outBuf, b)
    /\ outProduced' = Append(outProduced, b)
    /\ UNCHANGED <<outMode, outPc, outChild, outFd, outCopier, outSink>>
    /\ UNCHANGED exceptIoVars

\* the child exits: its side of the PTY / of the pipe is closed
OutChildExits ==
    /\ outChild = "running"
    /\ outChild' = "exited"
    /\ UNCHANGED <<outMode, outPc, outFd, outCopier, outBuf, outSink, outProduced>>
    /\ UNCHANGED exceptIoVars

\* io.Copy(stdout, f): one Read of the bytes at hand and their Write to stdout
CopierCopies ==
    /\ outCopier = "running"
    /\ outFd = "open"
    /\ outBuf # <<>>
    /\ outSink' = outSink \o outBuf
    /\ outBuf' = <<>>
    /\ UNCHANGED <<outMode, outPc, outChild, outFd, outCopier, outProduced>>
    /\ UNCHANGED exceptIoVars

\* io.Copy returns: Read fails because the file was closed, or it reports the
\* end of the stream once the child is gone and nothing is left to read; the
\* copier closes its file and close(copyDone)
CopierReturns ==
    /\ outCopier = "running"
    /\ outFd = "closed" \/ (outChild = "exited" /\ outBuf = <<>>)
    /\ outCopier' = "done"
    /\ outFd' = "closed"
    /\ UNCHANGED <<outMode, outPc, outChild, outBuf, outSink, outProduced>>
    /\ UNCHANGED exceptIoVars

\* err = cmd.Wait() returns when the child has exited; close(done)
OutWaitReturns ==
    /\ outPc = "started"
    /\ outChild = "exited"
    /\ outPc' = "waited"
    /\ UNCHANGED <<outMode, outChild, outFd, outCopier, outBuf, outSink, outProduced>>
    /\ UNCHANGED exceptIoVars

\* if ptyFile != nil { ptyFile.Close() }
PtyFileClose == IF outMode = "pty" THEN "closed" ELSE outFd

OutClosePty ==
    /\ outPc = "waited"
    /\ outFd' = PtyFileClose
    /\ outPc' = "closed"
    /\ UNCHANGED <<outMode, outChild, outCopier, outBuf, outSink, outProduced>>
    /\ UNCHANGED exceptIoVars

\* <-copyDone; the result is built and ExecuteWithHooks returns
OutReturn ==
    /\ outPc = "closed"
    /\ outCopier = "done"
    /\ outPc' = "returned"
    /\ UNCHANGED <<outMode, outChild, outFd, outCopier, outBuf, outSink, outProduced>>
    /\ UNCHANGED exceptIoVars

(***************************************************************************)
(* ExecutorService.ExecuteRemoteForScheduler (executor_service.go:738-796), *)
(* the executor of an agent-bound task, the AgentWSManager it uses and the *)
(* agent's side of the connection (Agent.handleWSMessage)                  *)
(***************************************************************************)
\* AgentWSManager.SendToAgent: the frame is written to the agent's connection;
\* an agent that is not connected gives an error and no frame
SendToAgent(frame) == IF agentConnected THEN Append(agentInbox, frame) ELSE agentInbox

\* AgentWSManager.RegisterRemoteWaiter / UnregisterRemoteWaiter
RegisterRemoteWaiter(l) == [waiters EXCEPT ![l] = "waiting"]
UnregisterRemoteWaiter(l) == [waiters EXCEPT ![l] = "none"]

\* variant of RemoteReturn without the deferred UnregisterRemoteWaiter
RemoteReturnNoDefer(r, o) ==
    /\ reqs' = [reqs EXCEPT ![r] = [@ EXCEPT !.pc = "returned", !.outcome = o]]
    /\ remotePc' = [remotePc EXCEPT ![r] = "none"]
    /\ UNCHANGED waiters

\* a return of ExecuteRemoteForScheduler after the waiter was registered:
\* the deferred UnregisterRemoteWaiter(logID) runs
RemoteReturn(r, o) ==
    /\ reqs' = [reqs EXCEPT ![r] = [@ EXCEPT !.pc = "returned", !.outcome = o]]
    /\ remotePc' = [remotePc EXCEPT ![r] = "none"]
    /\ waiters' = UnregisterRemoteWaiter(reqs[r].logID)

\* 1./2. the agent row is checked, then the waiter is registered
RemoteRegister(r) ==
    /\ reqs[r].pc = "running"
    /\ IsRemote(reqs[r].task)
    /\ remotePc[r] = "none"
    /\ IF agentState # "enabled"
       THEN /\ reqs' = [reqs EXCEPT ![r] = [@ EXCEPT !.pc = "returned",
                                                     !.outcome = "nil_err",
                                                     !.rejectedBy = "agent"]]
            /\ UNCHANGED <<remotePc, waiters>>
       ELSE /\ waiters' = RegisterRemoteWaiter(reqs[r].logID)
            /\ remotePc' = [remotePc EXCEPT ![r] = "registered"]
            /\ UNCHANGED reqs
    /\ UNCHANGED <<schedVars, nextReq, calls, dbVars, tlVars, execVars,
                   agentConnected, agentInbox, serverInbox, agentRuns, cronVars, restVars>>

\* 3. SendToAgent(agentID, execute, {task_id, log_id}); err != nil: return
RemoteSend(r) ==
    /\ remotePc[r] = "registered"
    /\ agentInbox' = SendToAgent([type |-> "execute", log |-> reqs[r].logID])
    /\ IF agentConnected
       THEN /\ remotePc' = [remotePc EXCEPT ![r] = "waiting"]
            /\ UNCHANGED <<reqs, waiters>>
       ELSE RemoteReturn(r, "nil_err")
    /\ UNCHANGED <<schedVars, nextReq, calls, dbVars, tlVars, execVars,
                   agentConnected, serverInbox, agentRuns, cronVars, restVars>>

\* 4. case agentResult := <-resultChan: the agent's result, and a nil error
RemoteResult(r) ==
    /\ remotePc[r] = "waiting"
    /\ waiters[reqs[r].logID] \in {"success", "failed"}
    /\ RemoteReturn(r, IF waiters[reqs[r].logID] = "success" THEN "result"
                       ELSE "result_failed")
    /\ UNCHANGED <<schedVars, nextReq, calls, dbVars, tlVars, execVars,
                   agentConnected, agentInbox, serverInbox, agentRuns, cronVars, restVars>>

\* 4. case <-time.After(timeout): a failed result and the timeout error.  The
\* timer is armed after the deadline of ctx (same duration, req.Timeout > 0),
\* so ctx has ended when it fires.
RemoteTimeout(r) ==
    /\ remotePc[r] = "waiting"
    /\ Timeout(r) > 0 => reqs[r].ctx # "none"
    /\ RemoteReturn(r, "result_err")
    /\ UNCHANGED <<schedVars, nextReq, calls, dbVars, tlVars, execVars,
                   agentConnected, agentInbox, serverInbox, agentRuns, cronVars, restVars>>

\* the control node handles a task_result frame: a waiter registered for
\* its log id is handed the result
ServerReceiveResult ==
    /\ serverInbox # <<>>
    /\ LET f == Head(serverInbox) IN
       /\ serverInbox' = Tail(serverInbox)
       /\ waiters' = IF waiters[f.log] = "waiting"
                     THEN [waiters EXCEPT ![f.log] = f.status]
                     ELSE waiters
    /\ UNCHANGED <<schedVars, reqVars, dbVars, tlVars, execVars,
                   remotePc, agentConnected, agentInbox, agentRuns, cronVars, restVars>>

\* Agent.readWS / handleWSMessage: an execute frame starts the run
\* (handleExecute); the switch has no case for a stop frame
AgentReceive ==
    /\ agentInbox # <<>>
    /\ LET f == Head(agentInbox) IN
       /\ agentInbox' = Tail(agentInbox)
       /\ agentRuns' = IF f.type = "execute"
                       THEN [agentRuns EXCEPT ![f.log] = "running"]
                       ELSE agentRuns
    /\ UNCHANGED <<schedVars, reqVars, dbVars, tlVars, execVars,
                   remotePc, waiters, agentConnected, serverInbox, cronVars, restVars>>

\* the run ends on the agent: AgentHandler.OnTaskCompleted / OnTaskFailed
\* send its result (sendTaskResult) and the agent forgets the run
AgentRunEnds(l) ==
    /\ agentRuns[l] = "running"
    /\ agentRuns' = [agentRuns EXCEPT ![l] = "none"]
    /\ \E st \in {"success", "failed"} :
          serverInbox' = Append(serverInbox, [log |-> l, status |-> st])
    /\ UNCHANGED <<schedVars, reqVars, dbVars, tlVars, execVars,
                   remotePc, waiters, agentConnected, agentInbox, cronVars, restVars>>

(***************************************************************************)
(* ExecutorService.StopTaskExecution (executor_service.go:530-560)         *)
(***************************************************************************)
\* the keys of s.runningTasks under which executeTask registers the cancel
\* function of r: s.runningTasks[req.TaskID] = cancel
RegisteredKeys(r) == {<<"task", reqs[r].task>>}

\* Scheduler.StopLog: the run whose cancel function the table holds under the
\* key of log id l, NoReq when there is none
StopLog(l) ==
    LET found == {r \in Reqs : /\ runningTasks[reqs[r].task] = r
                               /\ <<"log", l>> \in RegisteredKeys(r)}
    IN  IF found = {} THEN NoReq ELSE CHOOSE r \in found : TRUE

StopTaskExecution(l) ==
    /\ Len(agentInbox) < MaxFrames
    /\ IF l > Len(taskLogs)
       THEN /\ stopRet' = "no log"
            /\ UNCHANGED <<reqs, agentInbox>>
       ELSE IF taskLogs[l].status # "running"
       THEN /\ stopRet' = "finished"
            /\ UNCHANGED <<reqs, agentInbox>>
       ELSE IF IsRemote(taskLogs[l].task)
       THEN /\ agentInbox' = SendToAgent([type |-> "stop", log |-> l])
            /\ stopRet' = IF agentConnected THEN "sent" ELSE "send failed"
            /\ UNCHANGED reqs
       ELSE /\ reqs' = Cancel(reqs, StopLog(l))
            /\ stopRet' = IF StopLog(l) # NoReq THEN "stopped" ELSE "not running"
            /\ UNCHANGED agentInbox
    /\ UNCHANGED <<schedVars, nextReq, calls, dbVars, tlVars, taskTimeout, child, process,
                   remotePc, waiters, agentConnected, serverInbox, agentRuns, cronVars, restVars>>

(***************************************************************************)
(* CronManager (part_016) over the cron library (cron.New(WithSeconds))    *)
(***************************************************************************)
\* the expressions tasks are given: every 2 seconds, every 3 seconds, and a
\* malformed one
CronExprs == {"*/2 * * * * *", "*/3 * * * * *", "every day"}

\* parser.Parse: the period of the schedule in seconds, 0 for a parse error
Parse(expr) ==
    IF expr = "*/2 * * * * *" THEN 2
    ELSE IF expr = "*/3 * * * * *" THEN 3
    ELSE 0

\* Schedule.Next(t): the first second after t that the schedule matches
ScheduleNext(expr, t) == (t \div Parse(expr) + 1) * Parse(expr)

\* m.cron.Remove(entryID)
CronRemove(entries, id) == {e \in entries : e.id # id}

\* the entries left after "if exists: m.cron.Remove; delete(m.entryMap)"
WithoutTask(t) == IF entryMap[t] # 0 THEN CronRemove(cronEntries, entryMap[t]) ELSE cronEntries

\* history: the call AddTask(t, expr) comes right after a successful
\* AddTask(t, expr)
Repeats(t, expr) ==
    /\ lastCall.op = "AddTask" /\ lastCall.task = t /\ lastCall.expr = expr
    /\ cronRet = "ok"

\* variant of AddTask that keeps the old cron entry of the task
AddTaskKeepOld(t, expr) ==
    /\ nextEntryID <= MaxEntries
    /\ IF Parse(expr) = 0
       THEN /\ cronEntries' = WithoutTask(t)
            /\ entryMap' = [entryMap EXCEPT ![t] = 0]
            /\ cronRet' = "error"
            /\ UNCHANGED nextEntryID
       ELSE /\ cronEntries' = cronEntries \cup
                    {[id |-> nextEntryID, task |-> t, schedule |-> expr,
                      next |-> ScheduleNext(expr, now)]}
            /\ entryMap' = [entryMap EXCEPT ![t] = nextEntryID]
            /\ nextEntryID' = nextEntryID + 1
            /\ cronRet' = "ok"
    /\ lastCall' = [op |-> "AddTask", task |-> t, expr |-> expr, again |-> Repeats(t, expr)]
    /\ UNCHANGED <<schedVars, reqVars, dbVars, tlVars, execVars, remoteVars, calleeVars, now>>

\* AddTask: the old entry of the task is removed, then m.cron.AddFunc parses
\* the schedule; on a parse error the function returns it
AddTask(t, expr) ==
    /\ nextEntryID <= MaxEntries
    /\ IF Parse(expr) = 0
       THEN /\ cronEntries' = WithoutTask(t)
            /\ entryMap' = [entryMap EXCEPT ![t] = 0]
            /\ cronRet' = "error"
            /\ UNCHANGED nextEntryID
       ELSE /\ cronEntries' = WithoutTask(t) \cup
                    {[id |-> nextEntryID, task |-> t, schedule |-> expr,
                      next |-> ScheduleNext(expr, now)]}
            /\ entryMap' = [entryMap EXCEPT ![t] = nextEntryID]
            /\ nextEntryID' = nextEntryID + 1
            /\ cronRet' = "ok"
    /\ lastCall' = [op |-> "AddTask", task |-> t, expr |-> expr, again |-> Repeats(t, expr)]
    /\ UNCHANGED <<schedVars, reqVars, dbVars, tlVars, execVars, remoteVars, calleeVars, now>>

RemoveTask(t) ==
    /\ cronEntries' = WithoutTask(t)
    /\ entryMap' = [entryMap EXCEPT ![t] = 0]
    /\ lastCall' = [NoCall EXCEPT !.op = "RemoveTask", !.task = t]
    /\ UNCHANGED <<schedVars, reqVars, dbVars, tlVars, execVars, remoteVars, calleeVars,
                   nextEntryID, now, cronRet>>

ValidateCron(expr) ==
    /\ cronRet' = IF Parse(expr) = 0 THEN "error" ELSE "ok"
    /\ lastCall' = [NoCall EXCEPT !.op = "ValidateCron", !.expr = expr]
    /\ UNCHANGED <<schedVars, reqVars, dbVars, tlVars, execVars, remoteVars, restVars,
                   cronEntries, entryMap, nextEntryID, now>>

\* a second passes
ClockTick ==
    /\ now < MaxClock
    /\ now' = now + 1
    /\ lastCall' = NoCall
    /\ UNCHANGED <<schedVars, reqVars, dbVars, tlVars, execVars, remoteVars, restVars,
                   cronEntries, entryMap, nextEntryID, cronRet>>

\* the run loop of the cron library finds the entry due: it starts the job
\* (the closure of AddTask, whose dispatch is CronTick) and moves the entry
\* to its next fire time
CronFire(id) ==
    /\ \E e \in cronEntries :
          /\ e.id = id
          /\ e.next <= now
          /\ cronEntries' = (cronEntries \ {e}) \cup
                                {[e EXCEPT !.next = ScheduleNext(e.schedule, now)]}
    /\ lastCall' = NoCall
    /\ UNCHANGED <<schedVars, reqVars, dbVars, tlVars, execVars, remoteVars, restVars,
                   entryMap, nextEntryID, now, cronRet>>

(***************************************************************************)
(* Agent.updateTasks (part_000:618-656) on a `tasks` frame; the cron        *)
(* variables are the agent's own CronManager here                           *)
(***************************************************************************)
\* the AgentTask records a frame can carry; command stands for the fields
\* compared and stored like it (Command, Timeout, WorkDir, Envs)
AgentTasks == [listed : {TRUE}, schedule : CronExprs, command : {"a", "b"}, enabled : BOOLEAN]

\* a frame: for every task id the task it lists, or none
Frames == [DbTasks -> AgentTasks \cup {NoTask}]

\* Agent.handleTasks: updateTasks starts on the frame (a.mu is held until the
\* last task was gone through)
HandleTasks(frame) ==
    /\ updTodo = {}
    /\ updFrame' = frame
    /\ updTodo' = DbTasks
    /\ UNCHANGED <<agentCache, coreVars, calleeVars>>

\* oldTask differs from task in a compared field, or there is no oldTask
TaskChanged(old, new) == old = NoTask \/ old # new

\* updateTasks for one task id: removed when the frame does not list it;
\* otherwise, when it is new or changed, AddTask (enabled) or RemoveTask
\* (disabled) and a.tasks[id] = task, except that a failed AddTask skips the
\* assignment (continue)
UpdateTask(t) ==
    /\ t \in updTodo
    /\ updTodo' = updTodo \ {t}
    /\ UNCHANGED updFrame
    /\ LET new == updFrame[t]
           old == agentCache[t]
       IN  IF new = NoTask
           THEN IF old # NoTask
                THEN /\ RemoveTask(t)
                     /\ agentCache' = [agentCache EXCEPT ![t] = NoTask]
                ELSE UNCHANGED <<agentCache, coreVars, calleeVars>>
           ELSE IF ~TaskChanged(old, new)
           THEN UNCHANGED <<agentCache, coreVars, calleeVars>>
           ELSE IF new.enabled
           THEN /\ AddTask(t, new.schedule)
                /\ agentCache' = IF cronRet' = "error" THEN agentCache
                                 ELSE [agentCache EXCEPT ![t] = new]
           ELSE /\ RemoveTask(t)
                /\ agentCache' = [agentCache EXCEPT ![t] = new]

(***************************************************************************)
(* Agent.wsLoop / connectWS / closeWS / readWS / heartbeatLoop              *)
(* (part_000:255-352, 557-585)                                              *)
(***************************************************************************)
\* closeWS: the stop channel of the connection is closed, both fields are nil
CloseWS ==
    /\ closedChs' = IF wsStopCh # 0 THEN closedChs \cup {wsStopCh} ELSE closedChs
    /\ wsStopCh' = 0
    /\ wsConn' = 0

\* connectWS succeeds: a.wsConn and a new a.wsStopCh are set, the first
\* heartbeat is sent, go a.heartbeatLoop(); wsLoop goes on to readWS.  wsLoop
\* looks at a.stopCh before it calls connectWS and not again, so a Stop that
\* comes while the dial is under way does not keep the connection from being
\* stored ("idle" is wsLoop past that look)
ConnectWS ==
    /\ wsLoopPc = "idle"
    /\ nextConn <= MaxConns
    /\ wsConn' = nextConn
    /\ wsStopCh' = nextConn
    /\ hbLoops' = [hbLoops EXCEPT ![nextConn].pc = "spawned"]
    /\ nextConn' = nextConn + 1
    /\ wsLoopPc' = "reading"
    /\ UNCHANGED <<closedChs, agentStopped>>
    /\ UNCHANGED exceptConnVars

\* connectWS fails (dial error): nothing is stored and wsLoop sleeps
ConnectWSFails ==
    /\ wsLoopPc = "idle"
    /\ wsLoopPc' = "sleeping"
    /\ UNCHANGED <<wsConn, wsStopCh, closedChs, agentStopped, nextConn, hbLoops>>
    /\ UNCHANGED exceptConnVars

\* readWS returns (read error, or wsConn is nil): the deferred closeWS runs
\* and wsLoop sleeps
ReadWSReturns ==
    /\ wsLoopPc = "reading"
    /\ CloseWS
    /\ wsLoopPc' = "sleeping"
    /\ UNCHANGED <<agentStopped, nextConn, hbLoops>>
    /\ UNCHANGED exceptConnVars

\* time.Sleep(5 * time.Second) is over; wsLoop returns when a.stopCh is closed
SleepEnds ==
    /\ wsLoopPc = "sleeping"
    /\ wsLoopPc' = IF agentStopped THEN "exited" ELSE "idle"
    /\ UNCHANGED <<wsConn, wsStopCh, closedChs, agentStopped, nextConn, hbLoops>>
    /\ UNCHANGED exceptConnVars

\* Agent.Stop: close(a.stopCh); a.closeWS()
AgentStop ==
    /\ ~agentStopped
    /\ agentStopped' = TRUE
    /\ CloseWS
    /\ UNCHANGED <<wsLoopPc, nextConn, hbLoops>>
    /\ UNCHANGED exceptConnVars

\* the goroutine started by go a.heartbeatLoop() begins to run: it reads
\* a.wsStopCh and returns when it is nil
HeartbeatLoopBegins(c) ==
    /\ hbLoops[c].pc = "spawned"
    /\ hbLoops' = [hbLoops EXCEPT ![c] =
                      IF wsStopCh = 0 THEN [@ EXCEPT !.pc = "returned"]
                      ELSE [@ EXCEPT !.pc = "looping", !.ch = wsStopCh]]
    /\ UNCHANGED <<wsConn, wsStopCh, closedChs, wsLoopPc, agentStopped, nextConn>>
    /\ UNCHANGED exceptConnVars

\* case <-a.stopCh / case <-wsStopCh: return
HeartbeatLoopStops(c) ==
    /\ hbLoops[c].pc = "looping"
    /\ agentStopped \/ hbLoops[c].ch \in closedChs
    /\ hbLoops' = [hbLoops EXCEPT ![c].pc = "returned"]
    /\ UNCHANGED <<wsConn, wsStopCh, closedChs, wsLoopPc, agentStopped, nextConn>>
    /\ UNCHANGED exceptConnVars

\* case <-ticker.C (select takes any ready case): return when a.wsConn is
\* nil, else sendHeartbeat, which writes to a.wsConn
HeartbeatLoopTicks(c) ==
    /\ hbLoops[c].pc = "looping"
    /\ hbLoops' = [hbLoops EXCEPT ![c] =
                      IF wsConn = 0 THEN [@ EXCEPT !.pc = "returned"]
                      ELSE [@ EXCEPT !.sentOn = @ \cup {wsConn}]]
    /\ UNCHANGED <<wsConn, wsStopCh, closedChs, wsLoopPc, agentStopped, nextConn>>
    /\ UNCHANGED exceptConnVars

(***************************************************************************)
(* unicode/utf8 as TinyLog.Write uses it.  Bytes are the integers 0..255.  *)
(***************************************************************************)
\* utf8.RuneStart: b&0xC0 != 0x80
RuneStart(b) == (b \div 64) # 2

\* a continuation byte (locb..hicb)
IsCont(b) == b >= 128 /\ b <= 191

\* size of the encoding a first byte announces (first[b]&7); 1 for ASCII and
\* for bytes that cannot start an encoding
RuneLen(b) ==
    IF b >= 194 /\ b <= 223 THEN 2
    ELSE IF b >= 224 /\ b <= 239 THEN 3
    ELSE IF b >= 240 /\ b <= 244 THEN 4
    ELSE 1

\* acceptRanges: the values allowed for the second byte
AcceptLo(b) == IF b = 224 THEN 160 ELSE IF b = 240 THEN 144 ELSE 128
AcceptHi(b) == IF b = 237 THEN 159 ELSE IF b = 244 THEN 143 ELSE 191

\* utf8.FullRune: p begins with a full encoding of a rune (an invalid
\* encoding counts as a full rune of width 1)
FullRune(p) ==
    IF p = <<>> THEN FALSE
    ELSE IF Len(p) >= RuneLen(p[1]) THEN TRUE
    ELSE IF Len(p) > 1 /\ (p[2] < AcceptLo(p[1]) \/ AcceptHi(p[1]) < p[2]) THEN TRUE
    ELSE IF Len(p) > 2 /\ ~IsCont(p[3]) THEN TRUE
    ELSE FALSE

\* width of the valid encoding that starts at s[i], 0 when there is none
\* (utf8.DecodeRune returning RuneError, 1)
ValidRuneAt(s, i) ==
    LET b == s[i]
        n == RuneLen(b)
    IN  IF b < 128 THEN 1
        ELSE IF n = 1 THEN 0
        ELSE IF i + n - 1 > Len(s) THEN 0
        ELSE IF s[i + 1] < AcceptLo(b) \/ AcceptHi(b) < s[i + 1] THEN 0
        ELSE IF \E k \in 2..(n - 1) : ~IsCont(s[i + k]) THEN 0
        ELSE n

\* U+FFFD in UTF-8
ReplacementChar == <<239, 191, 189>>

\* utils.ToUTF8, the lenient conversion: valid encodings are kept, every byte
\* that is not part of one becomes U+FFFD
RECURSIVE ToUTF8From(_, _)
ToUTF8From(s, i) ==
    IF i > Len(s) THEN <<>>
    ELSE LET n == ValidRuneAt(s, i)
         IN  IF n = 0
             THEN ReplacementChar \o ToUTF8From(s, i + 1)
             ELSE SubSeq(s, i, i + n - 1) \o ToUTF8From(s, i + n)

ToUTF8(s) == ToUTF8From(s, 1)

(***************************************************************************)
(* TinyLog.Write (part_011:82-141)                                         *)
(***************************************************************************)
\* how far back Write looks for the last rune start (i >= len(payload)-4)
UTFMax == 4

\* 1. payload = append(l.remainder, p...)
Payload(p) == tlRemainder \o p

\* the index at which the backward loop breaks: the last rune start among the
\* last UTFMax bytes, 0 when there is none
LastRuneStart(payload) ==
    LET from == IF Len(payload) > UTFMax THEN Len(payload) - UTFMax + 1 ELSE 1
        starts == {i \in from..Len(payload) : RuneStart(payload[i])}
    IN  IF starts = {} THEN 0 ELSE CHOOSE i \in starts : \A j \in starts : j <= i

\* variant of LastSafe that only inspects the last byte
LastSafeLastByteOnly(payload) ==
    IF payload # <<>> /\ RuneStart(payload[Len(payload)])
                      /\ ~FullRune(SubSeq(payload, Len(payload), Len(payload)))
    THEN Len(payload) - 1
    ELSE Len(payload)

\* 2. lastSafe: the number of leading bytes of payload that are converted now;
\* the rest is a partial encoding kept as the new remainder
LastSafe(payload) ==
    LET i == LastRuneStart(payload)
    IN  IF i # 0 /\ ~FullRune(SubSeq(payload, i, Len(payload)))
        THEN i - 1
        ELSE Len(payload)

\* capacity of a subscriber channel: make(chan []byte, 100)
SubChanCap == 100

IsSubscribed(c) == \E i \in 1..Len(tlSubscribers) : tlSubscribers[i] = c

\* variant of Broadcast that sends to a subscriber whatever its channel holds
BroadcastToFull(data) ==
    [c \in Chans |->
        IF IsSubscribed(c)
        THEN [tlChans[c] EXCEPT !.buf = Append(@, data)]
        ELSE tlChans[c]]

\* 5. select { case ch <- data: default: } for every subscriber
Broadcast(data) ==
    [c \in Chans |->
        IF IsSubscribed(c) /\ Len(tlChans[c].buf) < SubChanCap
        THEN [tlChans[c] EXCEPT !.buf = Append(@, data)]
        ELSE tlChans[c]]

Write(p) ==
    /\ IF tlClosed
       THEN /\ tlRet' = "ErrClosed"
            /\ UNCHANGED <<tlRemainder, tlInput, tlWriter, tlChans, tlLastChunk>>
       ELSE \E payload \in {Payload(p)} : \E lastSafe \in {LastSafe(payload)} :
                /\ tlRemainder' = SubSeq(payload, lastSafe + 1, Len(payload))
                /\ tlInput' = tlInput \o p
                /\ tlRet' = "ok"
                /\ IF lastSafe = 0 /\ lastSafe < Len(payload)
                   THEN UNCHANGED <<tlWriter, tlChans, tlLastChunk>>
                   ELSE \E complete \in {SubSeq(payload, 1, lastSafe)} :
                        \E data \in {ToUTF8(complete)} :
                            /\ tlWriter' = tlWriter \o data
                            /\ tlChans' = Broadcast(data)
                            /\ tlLastChunk' = data
    /\ UNCHANGED <<tlClosed, tlRegistered, tlFile, tlSubscribers, tlPath, tlOutput>>
    /\ UNCHANGED engineVars

(***************************************************************************)
(* TinyLog.Subscribe / Unsubscribe (part_011:144-165) and a subscriber      *)
(***************************************************************************)
\* ch := make(chan []byte, 100); l.subscribers = append(l.subscribers, ch)
Subscribe ==
    /\ \E c \in Chans :
          /\ tlChans[c].state = "unused"
          /\ \A d \in Chans : d < c => tlChans[d].state # "unused"
          /\ tlChans' = [tlChans EXCEPT ![c] = [state |-> "open", buf |-> <<>>]]
          /\ tlSubscribers' = Append(tlSubscribers, c)
    /\ tlRet' = "ok"
    /\ UNCHANGED <<tlClosed, tlRegistered, tlRemainder, tlWriter, tlFile, tlInput,
                   tlLastChunk, tlPath, tlOutput>>
    /\ UNCHANGED engineVars

\* variant of Unsubscribe that closes the channel and leaves it in the list
UnsubscribeKeepingEntry(c) ==
    /\ tlChans[c].state # "unused"
    /\ IF IsSubscribed(c)
       THEN /\ tlChans' = [tlChans EXCEPT ![c].state = "closed"]
            /\ UNCHANGED tlSubscribers
       ELSE UNCHANGED <<tlSubscribers, tlChans>>
    /\ tlRet' = "ok"
    /\ UNCHANGED <<tlClosed, tlRegistered, tlRemainder, tlWriter, tlFile, tlInput,
                   tlLastChunk, tlPath, tlOutput>>
    /\ UNCHANGED engineVars

\* the subscriber is removed from the list and its channel closed, if it is
\* found in the list
Unsubscribe(c) ==
    /\ tlChans[c].state # "unused"
    /\ IF IsSubscribed(c)
       THEN /\ tlSubscribers' = SelectSeq(tlSubscribers, LAMBDA d : d # c)
            /\ tlChans' = [tlChans EXCEPT ![c].state = "closed"]
       ELSE UNCHANGED <<tlSubscribers, tlChans>>
    /\ tlRet' = "ok"
    /\ UNCHANGED <<tlClosed, tlRegistered, tlRemainder, tlWriter, tlFile, tlInput,
                   tlLastChunk, tlPath, tlOutput>>
    /\ UNCHANGED engineVars

\* the holder of a channel receives the next chunk: <-ch
Receive(c) ==
    /\ tlChans[c].buf # <<>>
    /\ tlChans' = [tlChans EXCEPT ![c].buf = Tail(@)]
    /\ UNCHANGED <<tlClosed, tlRegistered, tlRemainder, tlWriter, tlFile, tlSubscribers,
                   tlInput, tlLastChunk, tlPath, tlOutput, tlRet>>
    /\ UNCHANGED engineVars

(***************************************************************************)
(* TinyLog.Close (part_011:168-206)                                        *)
(***************************************************************************)
\* variant of the flush of the remainder in Close that drops the held bytes
DroppedRemainderData == <<>>

\* the last bit: data := []byte(utils.ToUTF8(l.remainder))
RemainderData == ToUTF8(tlRemainder)

\* the body of Close once l.closed has been found false: flush the
\* remainder, flush the buffer to the file, close every subscriber
CloseOpenLog ==
    \E data \in {RemainderData} :
    \E chans \in {IF tlRemainder # <<>> THEN Broadcast(data) ELSE tlChans} :
        /\ tlFile' = tlFile \o tlWriter \o (IF tlRemainder # <<>> THEN data ELSE <<>>)
        /\ tlWriter' = <<>>
        /\ tlLastChunk' = IF tlRemainder # <<>> THEN data ELSE tlLastChunk
        /\ tlRemainder' = <<>>
        /\ tlChans' = [c \in Chans |->
                          IF IsSubscribed(c) THEN [chans[c] EXCEPT !.state = "closed"]
                          ELSE chans[c]]
        /\ tlSubscribers' = <<>>
        /\ tlClosed' = TRUE
        /\ tlRegistered' = FALSE

Close ==
    /\ IF tlClosed
       THEN UNCHANGED <<tlClosed, tlRegistered, tlRemainder, tlWriter, tlFile,
                        tlSubscribers, tlChans, tlLastChunk>>
       ELSE CloseOpenLog
    /\ tlRet' = "ok"
    /\ UNCHANGED <<tlInput, tlPath, tlOutput>>
    /\ UNCHANGED engineVars

(***************************************************************************)
(* TinyLog.CompressAndCleanup (part_011:209-244): File -> Zlib -> Base64   *)
(***************************************************************************)
\* Adler-32 of the data, the checksum that ends a zlib stream
RECURSIVE AdlerSums(_, _, _, _)
AdlerSums(data, i, a, b) ==
    IF i > Len(data) THEN <<a, b>>
    ELSE LET a2 == (a + data[i]) % 65521
         IN  AdlerSums(data, i + 1, a2, (b + a2) % 65521)

Adler32(data) ==
    LET ab == AdlerSums(data, 1, 1, 0)
    IN  <<ab[2] \div 256, ab[2] % 256, ab[1] \div 256, ab[1] % 256>>

\* a zlib stream of the data: the two header bytes (CMF 0x78, FLG 0x9C), the
\* data in one final stored block (BFINAL/BTYPE, LEN, NLEN, bytes) and the
\* Adler-32 checksum
ZlibCompress(data) ==
    <<120, 156, 1, Len(data) % 256, Len(data) \div 256,
      255 - (Len(data) % 256), 255 - (Len(data) \div 256)>> \o data \o Adler32(data)

\* what a reader of the stream recovers, <<-1>> when the stream is malformed
ZlibDecompress(z) ==
    IF Len(z) < 11 \/ (z[1] * 256 + z[2]) % 31 # 0 \/ z[1] % 16 # 8 \/ z[3] # 1
    THEN <<-1>>
    ELSE LET n == z[4] + 256 * z[5]
         IN  IF z[6] # 255 - z[4] \/ z[7] # 255 - z[5] \/ Len(z) # n + 11
             THEN <<-1>>
             ELSE LET data == SubSeq(z, 8, 7 + n)
                  IN  IF SubSeq(z, 8 + n, 11 + n) = Adler32(data) THEN data ELSE <<-1>>

\* base64.StdEncoding: a character is written as its index in the alphabet,
\* the padding character '=' as 64
Base64Pad == 64

RECURSIVE Base64From(_, _)
Base64From(bs, i) ==
    IF i > Len(bs) THEN <<>>
    ELSE IF i = Len(bs)
    THEN <<bs[i] \div 4, (bs[i] % 4) * 16, Base64Pad, Base64Pad>>
    ELSE IF i + 1 = Len(bs)
    THEN <<bs[i] \div 4, (bs[i] % 4) * 16 + bs[i + 1] \div 16, (bs[i + 1] % 16) * 4, Base64Pad>>
    ELSE <<bs[i] \div 4, (bs[i] % 4) * 16 + bs[i + 1] \div 16,
           (bs[i + 1] % 16) * 4 + bs[i + 2] \div 64, bs[i + 2] % 64>>
         \o Base64From(bs, i + 3)

Base64Encode(bs) == Base64From(bs, 1)

RECURSIVE Base64DecodeFrom(_, _)
Base64DecodeFrom(cs, i) ==
    IF i + 3 > Len(cs) THEN <<>>
    ELSE LET b1 == cs[i] * 4 + cs[i + 1] \div 16
             b2 == (cs[i + 1] % 16) * 16 + cs[i + 2] \div 4
             b3 == (cs[i + 2] % 4) * 64 + cs[i + 3]
         IN  IF cs[i + 2] = Base64Pad THEN <<b1>>
             ELSE IF cs[i + 3] = Base64Pad THEN <<b1, b2>>
             ELSE <<b1, b2, b3>> \o Base64DecodeFrom(cs, i + 4)

Base64Decode(cs) == Base64DecodeFrom(cs, 1)

\* if !l.closed { l.Close() }; then the file is read, compressed and removed.
\* When the file is already gone os.Open fails and "" is returned.
CompressAndCleanup ==
    /\ IF tlPath = "removed"
       THEN /\ tlRet' = "ErrNotExist"
            /\ UNCHANGED <<tlClosed, tlRegistered, tlRemainder, tlWriter, tlFile,
                           tlSubscribers, tlChans, tlLastChunk, tlPath, tlOutput>>
       ELSE /\ IF tlClosed
               THEN UNCHANGED <<tlClosed, tlRegistered, tlRemainder, tlWriter, tlFile,
                                tlSubscribers, tlChans, tlLastChunk>>
               ELSE CloseOpenLog
            /\ \E file \in {tlFile'} : \E zlibbed \in {ZlibCompress(file)} :
                  tlOutput' = Base64Encode(zlibbed)
            /\ tlPath' = "removed"
            /\ tlRet' = "ok"
    /\ UNCHANGED tlInput
    /\ UNCHANGED engineVars

(***************************************************************************)
(* Bytes written to the TinyLog                                            *)
(***************************************************************************)
\* 'A', the first bytes of a 2-, 3- and 4-byte encoding, a continuation byte
Utf8Alphabet == {65, 195, 226, 240, 169}

\* 'A' and the first byte of a 3-byte encoding
LogAlphabet == {65, 226}

\* the non-empty byte strings over S of at most n bytes
Chunks(S, n) == UNION {[1..k -> S] : k \in 1..n}

\* one Write call of the process that produces the log
WriteBytes == \E p \in Chunks(Utf8Alphabet, MaxInput - Len(tlInput)) : Write(p)

\* a subscriber that attaches before the first byte is written
SubscribeEarly == tlInput = <<>> /\ Subscribe

WriteLine == \E p \in Chunks(LogAlphabet, MaxInput - Len(tlInput)) : Write(p)

\* a Write that arrives after the log was closed
WriteLate == tlClosed /\ Write(<<65>>)

\* a subscriber that has not read for a while: one chunk short of a full channel
Backlog == SubChanCap - 1

\* a TinyLog after Subscribe and Backlog calls Write("A"), nothing received
TinyLogSlowInit ==
    /\ tlClosed = FALSE
    /\ tlRegistered = TRUE
    /\ tlRemainder = <<>>
    /\ tlWriter = [i \in 1..Backlog |-> 65]
    /\ tlFile = <<>>
    /\ tlSubscribers = <<1>>
    /\ tlChans = [c \in Chans |-> IF c = 1
                                   THEN [state |-> "open", buf |-> [i \in 1..Backlog |-> <<65>>]]
                                   ELSE NoChan]
    /\ tlInput = [i \in 1..Backlog |-> 65]
    /\ tlLastChunk = <<65>>
    /\ tlPath = "exists"
    /\ tlOutput = <<>>
    /\ tlRet = "ok"

\* the slow subscriber reads a chunk only when its channel is full or one
\* chunk short of it; the other subscribers read at any time
ReceiveSlowly(c) == (c = 1 => Len(tlChans[c].buf) >= Backlog) /\ Receive(c)

\* the next Write calls of the producer, "B" or "C": MaxSubs + 1 of them
WriteMore == \E p \in {<<66>>, <<67>>} : Len(tlInput) < SubChanCap + MaxSubs /\ Write(p)

(***************************************************************************)
(* Specifications.                                                         *)
(*   Spec      the Scheduler's API (Enqueue, EnqueueOrExecute, ExecuteSync,*)
(*             StopTask, Stop) driven directly, with the server handler.   *)
(*   SpecStop  the same Scheduler while Stop is called.                    *)
(*   SpecCoord the server's dispatch paths (cron tick, ExecuteTask, which  *)
(*             is also what a startup trigger calls) through the gate.     *)
(*   SpecLog   one TinyLog with its writer and its subscribers.            *)
(*   SpecUtf8  one TinyLog fed every byte string over Utf8Alphabet, cut    *)
(*             into Write calls in every way.                              *)
(***************************************************************************)
\* the steps of a run inside executeTask
ExecuteTaskStep(r) ==
    \/ ExecuteTaskPrepare(r)
    \/ ExecuteTaskPreFailed(r)
    \/ Register(r)
    \/ ExecutorReturns(r)
    \/ Report(r)
    \/ Deregister(r)

Next ==
    \/ Enqueue(LocalTask)
    \/ EnqueueOrExecute(LocalTask)
    \/ ExecuteSync
    \/ RateTick
    \/ \E w \in Workers : WorkerReceive(w)
    \/ \E w \in Workers : WorkerRate(w)
    \/ \E t \in {SystemTask, LocalTask} : StopTask(t)
    \/ \E r \in Reqs : ExecuteTaskStep(r)

Spec == Init /\ [][Next]_vars

\* the scheduler with neither Stop nor Reload, under fair scheduling: the
\* ticker keeps ticking, a worker blocked in a channel receive gets its turn
\* (the runtime serves waiting receivers in order), and a goroutine inside
\* executeTask goes on (the executor ends every run at its deadline)
Fairness ==
    /\ WF_vars(RateTick)
    /\ \A w \in Workers : SF_vars(WorkerReceive(w)) /\ SF_vars(WorkerRate(w))
    /\ \A r \in Reqs : WF_vars(ExecuteTaskStep(r))

SpecFair == Init /\ [][Next]_vars /\ Fairness

NextStop ==
    \/ EnqueueOrExecute(LocalTask)
    \/ ExecuteSync
    \/ RateTick
    \/ \E w \in Workers : WorkerReceive(w)
    \/ \E w \in Workers : WorkerRate(w)
    \/ \E w \in Workers : WorkerExit(w)
    \/ StopClose
    \/ StopReturn
    \/ \E r \in Reqs : ExecuteTaskStep(r)

SpecStop == Init /\ [][NextStop]_vars

NextCoord ==
    \/ CronTick(LocalTask)
    \/ \E t \in DbTasks : ExecuteTask(t)
    \/ RateTick
    \/ \E w \in Workers : WorkerReceive(w)
    \/ \E w \in Workers : WorkerRate(w)
    \/ \E r \in Reqs : ExecuteTaskStep(r)

InitCoord ==
    /\ SchedInit
    /\ agentState \in {"enabled", "disabled", "missing"}
    /\ TinyLogInit
    /\ ExtInit

SpecCoord == InitCoord /\ [][NextCoord]_vars

NextLog ==
    \/ WriteLine
    \/ WriteLate
    \/ Subscribe
    \/ \E c \in Chans : Unsubscribe(c)
    \/ \E c \in Chans : Receive(c)
    \/ Close
    \/ CompressAndCleanup

SpecLog == Init /\ [][NextLog]_vars

NextUtf8 ==
    \/ WriteBytes
    \/ SubscribeEarly
    \/ Close
    \/ CompressAndCleanup

SpecUtf8 == Init /\ [][NextUtf8]_vars

\* a TinyLog whose first subscriber is slow
InitSlow ==
    /\ SchedInit
    /\ agentState = "enabled"
    /\ TinyLogSlowInit
    /\ ExtInit

NextSlow ==
    \/ WriteMore
    \/ Subscribe
    \/ \E c \in Chans : Unsubscribe(c)
    \/ \E c \in Chans : ReceiveSlowly(c)
    \/ Close

SpecSlow == InitSlow /\ [][NextSlow]_vars

\* Task.Timeout values of the explored databases: none, and one minute
TimeoutValues == {0, 1}

\* the server process is alive; after an unrecovered panic nothing runs
Up == process = "up"

\* local runs of LocalTask with ExecuteWithHooks as the executor
InitExec ==
    /\ SchedInit
    /\ agentState = "enabled"
    /\ TinyLogInit
    /\ \E m \in TimeoutValues : taskTimeout = [t \in DbTasks |-> m]
    /\ ExecInit
    /\ agentConnected = TRUE
    /\ RemoteInit
    /\ CronInit
    /\ RestInit

NextExec ==
    \/ Up /\ EnqueueOrExecute(LocalTask)
    \/ Up /\ RateTick
    \/ \E w \in Workers : Up /\ WorkerReceive(w)
    \/ \E w \in Workers : Up /\ WorkerRate(w)
    \/ Up /\ StopTask(LocalTask)
    \/ \E l \in LogIDs : Up /\ StopTaskExecution(l)
    \/ \E r \in Reqs : Up /\ ExecuteTaskPrepare(r)
    \/ \E r \in Reqs : Up /\ ExecuteTaskPreFailed(r)
    \/ \E r \in Reqs : Up /\ Register(r)
    \/ \E r \in Reqs : Up /\ ExecStart(r)
    \/ \E r \in Reqs : Up /\ ChildExits(r)
    \/ \E r \in Reqs : Up /\ CtxDeadline(r)
    \/ \E r \in Reqs : Up /\ ExecDeadline(r)
    \/ \E r \in Reqs : Up /\ ContextKill(r)
    \/ \E r \in Reqs : Up /\ HeartbeatTick(r)
    \/ \E r \in Reqs : Up /\ WaitReturns(r)
    \/ \E r \in Reqs : Up /\ Report(r)
    \/ \E r \in Reqs : Up /\ Deregister(r)

SpecExec == InitExec /\ [][NextExec]_vars

(***************************************************************************)
(* Restart of the server: ExecutorService.CleanupRunningTasks              *)
(* (executor_service.go:656-660) at boot                                   *)
(***************************************************************************)
\* variant of the cleanup that clears the tasks bound to an agent only
CleanupAgentTasks(rg) == [t \in DbTasks |-> IF IsRemote(t) THEN <<>> ELSE rg[t]]

\* UPDATE tasks SET running_go = '[]' WHERE 1=1
CleanupRunningTasks(rg) == [t \in DbTasks |-> <<>>]

\* the process is killed or dies at any point; the database keeps its rows
Crash ==
    /\ Up
    /\ process' = "crashed"
    /\ UNCHANGED <<schedVars, reqVars, dbVars, tlVars, taskTimeout, child, stopRet, remoteVars, cronVars, restVars>>

\* the process boots: running_go is cleared for all tasks, and everything the
\* dead process held in memory (queue, workers, runs, LiveLog index) is new
Restart ==
    /\ process = "crashed"
    /\ process' = "up"
    /\ runningGo' = CleanupRunningTasks(runningGo)
    /\ taskQueue' = <<>>
    /\ rateLimiter' = 0
    /\ wreq' = [w \in Workers |-> NoReq]
    /\ runningTasks' = [t \in TaskIDs |-> NoReq]
    /\ reqs' = [r \in Reqs |-> IF reqs[r].pc = "new" THEN reqs[r] ELSE Returned(reqs[r])]
    /\ activeLogs' = {}
    /\ UNCHANGED <<stopCh, stopPc, nextReq, calls, taskLogs, agentState, tlVars, taskTimeout, child, stopRet, remoteVars, cronVars, restVars>>

NextBoot ==
    \/ Up /\ ExecuteTask(LocalTask)
    \/ Up /\ RateTick
    \/ \E w \in Workers : Up /\ WorkerReceive(w)
    \/ \E w \in Workers : Up /\ WorkerRate(w)
    \/ \E r \in Reqs : Up /\ ExecuteTaskPrepare(r)
    \/ \E r \in Reqs : Up /\ ExecuteTaskPreFailed(r)
    \/ \E r \in Reqs : Up /\ Register(r)
    \/ \E r \in Reqs : Up /\ ExecStart(r)
    \/ \E r \in Reqs : Up /\ ChildExits(r)
    \/ \E r \in Reqs : Up /\ WaitReturns(r)
    \/ \E r \in Reqs : Up /\ Report(r)
    \/ \E r \in Reqs : Up /\ Deregister(r)
    \/ Crash
    \/ Restart

SpecBoot == InitExec /\ [][NextBoot]_vars

(***************************************************************************)
(* ExecutorService.Reload (executor_service.go:469-476) and the cron       *)
(* dispatcher.  The scheduler variables are those of Scheduler 1, the one  *)
(* NewExecutorService made and handed to NewCronManager.                   *)
(***************************************************************************)
\* m.scheduler of es.cronManager: NewCronManager(es.scheduler) runs once, in
\* NewExecutorService, and nothing assigns the field later
CronManagerScheduler == 1

\* es.initScheduler() of Reload, after es.scheduler.Stop() has returned:
\* es.scheduler is a new Scheduler, started with an empty queue
ReloadInitScheduler ==
    /\ esScheduler = 1
    /\ stopPc = "returned"
    /\ esScheduler' = 2
    /\ UNCHANGED exceptReloadVars

\* the cron entry of the task fires: m.scheduler.EnqueueOrExecute(req)
CronDispatch(t) ==
    /\ CronManagerScheduler = 1
    /\ CronTick(t)

\* Reload is Scheduler.Stop (StopClose, WorkerExit, StopReturn) followed by
\* initScheduler
NextReload ==
    \/ CronDispatch(LocalTask)
    \/ RateTick
    \/ \E w \in Workers : WorkerReceive(w)
    \/ \E w \in Workers : WorkerRate(w)
    \/ \E w \in Workers : WorkerExit(w)
    \/ StopClose
    \/ StopReturn
    \/ ReloadInitScheduler
    \/ \E r \in Reqs : ExecuteTaskStep(r)

SpecReload == Init /\ [][NextReload]_vars

(***************************************************************************)
(* Agent.updateSchedulerConfig (part_000:407-439) and Scheduler.Reload     *)
(* (scheduler.go:475-496)                                                  *)
(***************************************************************************)
\* scheduler_config of a connected frame: any of the three keys, each with a
\* JSON number (taken through int(v))
ConfigKeys == {"worker_count", "queue_size", "rate_interval"}
ConfigFrames == UNION {[K -> 0..MaxConfig] : K \in SUBSET ConfigKeys}

\* newCfg: the current config with the keys of the frame written over it
MergeConfig(cur, frame) ==
    [workerCount |-> IF "worker_count" \in DOMAIN frame THEN frame["worker_count"]
                                                         ELSE cur.workerCount,
     queueSize |-> IF "queue_size" \in DOMAIN frame THEN frame["queue_size"]
                                                     ELSE cur.queueSize,
     rateInterval |-> IF "rate_interval" \in DOMAIN frame THEN frame["rate_interval"]
                                                           ELSE cur.rateInterval]

\* Scheduler.Reload: s.config = config
Reload(config) == config

\* if newCfg != currentCfg { a.scheduler.Reload(newCfg) }
UpdateSchedulerConfig(frame) ==
    /\ \E newCfg \in {MergeConfig(schedConfig, frame)} :
          /\ cfgReloaded' = (newCfg # schedConfig)
          /\ schedConfig' = IF newCfg # schedConfig THEN Reload(newCfg) ELSE schedConfig
    /\ UNCHANGED exceptConfigVars

NextConfig == \E frame \in ConfigFrames : UpdateSchedulerConfig(frame)

SpecConfig == Init /\ [][NextConfig]_vars

(***************************************************************************)
(* Enqueue / EnqueueOrExecute (scheduler.go:241-267) step by step: the     *)
(* send to the queue and the call of OnTaskScheduled are two statements of *)
(* the caller, and the workers run between them                            *)
(***************************************************************************)
\* select { case s.taskQueue <- req: ... default: ... } up to the send
EnqueueSend(t, api) ==
    /\ nextReq <= MaxReqs
    /\ nextReq' = nextReq + 1
    /\ IF ~QueueFull
       THEN /\ taskQueue' = Append(taskQueue, nextReq)
            /\ reqs' = [reqs EXCEPT ![nextReq] = [@ EXCEPT !.task = t, !.api = api,
                                                            !.pc = "queued"]]
            /\ schedPending' = schedPending \cup {nextReq}
            /\ UNCHANGED calls
       ELSE IF api = "enqueue"
       THEN /\ reqs' = [reqs EXCEPT ![nextReq] = [@ EXCEPT !.task = t, !.api = api,
                                                            !.pc = "rejected",
                                                            !.rejectedBy = "queue"]]
            /\ UNCHANGED <<taskQueue, calls, schedPending>>
       ELSE /\ EnterExecuteTask(nextReq, t, api, "fallback")
            /\ UNCHANGED schedPending
    /\ UNCHANGED <<rateLimiter, stopCh, stopPc, wreq, runningTasks, dbVars, tlVars>>
    /\ UNCHANGED <<execVars, remoteVars, cronVars, exceptCallerVars>>

\* if s.handler != nil { s.handler.OnTaskScheduled(req) }
CallerOnTaskScheduled(r) ==
    /\ r \in schedPending
    /\ schedPending' = schedPending \ {r}
    /\ calls' = [calls EXCEPT ![r].scheduled = @ + 1]
    /\ UNCHANGED <<schedVars, nextReq, reqs, dbVars, tlVars>>
    /\ UNCHANGED <<execVars, remoteVars, cronVars, exceptCallerVars>>

NextCaller ==
    \/ \E api \in {"enqueue", "orexec"} : EnqueueSend(LocalTask, api)
    \/ \E r \in Reqs : CallerOnTaskScheduled(r)
    \/ RateTick
    \/ \E w \in Workers : WorkerReceive(w)
    \/ \E w \in Workers : WorkerRate(w)
    \/ \E r \in Reqs : ExecuteTaskStep(r)

SpecCaller == Init /\ [][NextCaller]_vars

(***************************************************************************)
(* The heartbeat goroutine of ExecuteWithHooks (executor.go:210-230), one  *)
(* action per statement: nothing waits for this goroutine                  *)
(***************************************************************************)
\* close(done) has run: cmd.Wait() returned for a child that was started
DoneClosed(r) ==
    /\ child[r].state = "ended"
    /\ child[r].end # "startfail"
    /\ reqs[r].pc # "running"

\* go func() { ticker := time.NewTicker(3 * time.Second); for { select ...
HeartbeatStarts(r) ==
    /\ hbPc[r] = "none"
    /\ child[r].state # "none"
    /\ child[r].end # "startfail"
    /\ hbPc' = [hbPc EXCEPT ![r] = "waiting"]
    /\ UNCHANGED <<coreVars, exceptHbVars>>

\* case <-ticker.C: taken whenever a tick is there, also when done is closed
\* at the same time (select picks among the ready cases)
HeartbeatSelectsTick(r) ==
    /\ hbPc[r] = "waiting"
    /\ hbPc' = [hbPc EXCEPT ![r] = "ticked"]
    /\ UNCHANGED <<coreVars, exceptHbVars>>

\* case <-done: return
HeartbeatSelectsDone(r) ==
    /\ hbPc[r] = "waiting"
    /\ DoneClosed(r)
    /\ hbPc' = [hbPc EXCEPT ![r] = "stopped"]
    /\ UNCHANGED <<coreVars, exceptHbVars>>

\* hooks.OnHeartbeat(ctx, logID, ...): OnTaskHeartbeat / UpdateTaskDuration
HeartbeatCallsHook(r) ==
    /\ hbPc[r] = "ticked"
    /\ hbPc' = [hbPc EXCEPT ![r] = "waiting"]
    /\ UNCHANGED <<coreVars, exceptHbVars>>

NextHeartbeat ==
    \/ EnqueueOrExecute(LocalTask)
    \/ RateTick
    \/ \E w \in Workers : WorkerReceive(w)
    \/ \E w \in Workers : WorkerRate(w)
    \/ \E r \in Reqs : ExecuteTaskPrepare(r)
    \/ \E r \in Reqs : ExecuteTaskPreFailed(r)
    \/ \E r \in Reqs : Register(r)
    \/ \E r \in Reqs : ExecStart(r)
    \/ \E r \in Reqs : ChildExits(r)
    \/ \E r \in Reqs : HeartbeatStarts(r)
    \/ \E r \in Reqs : HeartbeatSelectsTick(r)
    \/ \E r \in Reqs : HeartbeatSelectsDone(r)
    \/ \E r \in Reqs : HeartbeatCallsHook(r)
    \/ \E r \in Reqs : WaitReturns(r)
    \/ \E r \in Reqs : Report(r)
    \/ \E r \in Reqs : Deregister(r)

SpecHeartbeat == InitExec /\ [][NextHeartbeat]_vars

\* runs of AgentTask with ExecuteRemoteForScheduler as the executor
InitRemote ==
    /\ SchedInit
    /\ agentState = "enabled"
    /\ TinyLogInit
    /\ \E m \in TimeoutValues : taskTimeout = [t \in DbTasks |-> m]
    /\ ExecInit
    /\ agentConnected \in BOOLEAN
    /\ RemoteInit
    /\ CronInit
    /\ RestInit

NextRemote ==
    \/ EnqueueOrExecute(AgentTask)
    \/ RateTick
    \/ \E w \in Workers : WorkerReceive(w)
    \/ \E w \in Workers : WorkerRate(w)
    \/ \E r \in Reqs : ExecuteTaskPrepare(r)
    \/ \E r \in Reqs : ExecuteTaskPreFailed(r)
    \/ \E r \in Reqs : Register(r)
    \/ \E r \in Reqs : RemoteRegister(r)
    \/ \E r \in Reqs : RemoteSend(r)
    \/ \E r \in Reqs : RemoteResult(r)
    \/ \E r \in Reqs : RemoteTimeout(r)
    \/ \E r \in Reqs : CtxDeadline(r)
    \/ \E r \in Reqs : Report(r)
    \/ \E r \in Reqs : Deregister(r)
    \/ ServerReceiveResult
    \/ AgentReceive
    \/ \E l \in LogIDs : AgentRunEnds(l)

SpecRemote == InitRemote /\ [][NextRemote]_vars

\* remote runs, and StopTaskExecution called for their log ids
NextRemoteStop ==
    \/ NextRemote
    \/ \E l \in LogIDs : StopTaskExecution(l)

SpecRemoteStop == InitRemote /\ [][NextRemoteStop]_vars

(***************************************************************************)
(* Agent.handleExecute (part_000:472-506) with the lookup in a.tasks       *)
(***************************************************************************)
\* task_id of the execute frame the control node sent for log id l
FrameTask(l) == taskLogs[l].task

\* handleWSMessage / handleExecute: the task is looked up in a.tasks; when it
\* is not there the frame is logged and dropped, otherwise the request goes
\* to the agent's scheduler and the run starts
HandleExecute ==
    /\ agentInbox # <<>>
    /\ LET f == Head(agentInbox) IN
       /\ agentInbox' = Tail(agentInbox)
       /\ agentRuns' = IF f.type = "execute" /\ agentCache[FrameTask(f.log)].listed
                       THEN [agentRuns EXCEPT ![f.log] = "running"]
                       ELSE agentRuns
    /\ UNCHANGED <<schedVars, reqVars, dbVars, tlVars, execVars,
                   remotePc, waiters, agentConnected, serverInbox, cronVars, restVars>>

\* a.tasks of an agent that has handled a tasks frame with the task, and of
\* one that has not (no frame yet, or the task was not in the last frame)
AgentCaches ==
    {[t \in DbTasks |-> NoTask],
     [t \in DbTasks |-> IF t = AgentTask
                         THEN [listed |-> TRUE, schedule |-> "", command |-> "a",
                               enabled |-> TRUE]
                         ELSE NoTask]}

InitAgentExec ==
    /\ SchedInit
    /\ agentState = "enabled"
    /\ TinyLogInit
    /\ \E m \in TimeoutValues : taskTimeout = [t \in DbTasks |-> m]
    /\ ExecInit
    /\ agentConnected = TRUE
    /\ RemoteInit
    /\ CronInit
    /\ ConfigInit
    /\ CallerInit
    /\ HeartbeatInit
    /\ OutputInit
    /\ agentCache \in AgentCaches
    /\ updFrame = [t \in DbTasks |-> NoTask]
    /\ updTodo = {}
    /\ ConnInit
    /\ ResultsInit
    /\ ReloadInit

NextAgentExec ==
    \/ EnqueueOrExecute(AgentTask)
    \/ RateTick
    \/ \E w \in Workers : WorkerReceive(w)
    \/ \E w \in Workers : WorkerRate(w)
    \/ \E r \in Reqs : ExecuteTaskPrepare(r)
    \/ \E r \in Reqs : ExecuteTaskPreFailed(r)
    \/ \E r \in Reqs : Register(r)
    \/ \E r \in Reqs : RemoteRegister(r)
    \/ \E r \in Reqs : RemoteSend(r)
    \/ \E r \in Reqs : RemoteResult(r)
    \/ \E r \in Reqs : RemoteTimeout(r)
    \/ \E r \in Reqs : CtxDeadline(r)
    \/ \E r \in Reqs : Report(r)
    \/ \E r \in Reqs : Deregister(r)
    \/ ServerReceiveResult
    \/ HandleExecute
    \/ \E l \in LogIDs : AgentRunEnds(l)

SpecAgentExec == InitAgentExec /\ [][NextAgentExec]_vars

\* the CronManager under AddTask, RemoveTask and ValidateCron calls
NextCron ==
    \/ \E t \in DbTasks : \E expr \in CronExprs : AddTask(t, expr) /\ UNCHANGED agentTaskVars
    \/ \E t \in DbTasks : RemoveTask(t) /\ UNCHANGED agentTaskVars
    \/ \E expr \in CronExprs : ValidateCron(expr)
    \/ ClockTick
    \/ \E id \in 1..MaxEntries : CronFire(id)

SpecCron == Init /\ [][NextCron]_vars

\* one child of ExecuteWithHooks and the copier of its output
NextOutput ==
    \/ OutStart
    \/ \E b \in OutputBytes : OutChildWrites(b)
    \/ OutChildExits
    \/ CopierCopies
    \/ CopierReturns
    \/ OutWaitReturns
    \/ OutClosePty
    \/ OutReturn

SpecOutput == Init /\ [][NextOutput]_vars

\* the agent under `tasks` frames
NextAgentTasks ==
    \/ \E frame \in Frames : HandleTasks(frame)
    \/ \E t \in DbTasks : UpdateTask(t)

SpecAgentTasks == Init /\ [][NextAgentTasks]_vars

\* the agent's connection loop and its heartbeat loops
NextConn ==
    \/ ConnectWS
    \/ ConnectWSFails
    \/ ReadWSReturns
    \/ SleepEnds
    \/ AgentStop
    \/ \E c \in Conns : HeartbeatLoopBegins(c)
    \/ \E c \in Conns : HeartbeatLoopStops(c)
    \/ \E c \in Conns : HeartbeatLoopTicks(c)

SpecConn == Init /\ [][NextConn]_vars

(***************************************************************************)
(* ExecutorService.UpdateResult (executor_service.go:600-630)              *)
(***************************************************************************)
\* capacity of es.results
ResultsCap == 100

\* constant.TaskStatusSuccess / Failed / Timeout / Cancelled
FinishedStatuses == {"success", "failed", "timeout", "cancelled"}

\* the ExecutionResult values handed to UpdateResult: LogID 0 (a run without
\* a TaskLog row), the log id of the oldest entry of a long history, and a
\* log id no entry has yet; an Output that is empty or not
ResultLogIDs == {0, 1, ResultsCap}
ExecutionResults ==
    [logID : ResultLogIDs, status : {"running"} \cup FinishedStatuses, output : {"", "x"}]

\* es.results after the server recorded ResultsCap - 1 finished runs
LongHistory == [i \in 1..(ResultsCap - 1) |-> [logID |-> i, status |-> "success", output |-> ""]]

\* if isFinished { res.Output = "" }
ClearFinished(res) ==
    IF res.status \in FinishedStatuses THEN [res EXCEPT !.output = ""] ELSE res

\* the loop over es.results: the first index whose LogID is res.LogID, when
\* res.LogID is not 0; 0 when there is none
FindResult(buf, res) ==
    LET hits == {i \in 1..Len(buf) : buf[i].logID = res.logID /\ res.logID # 0}
    IN  IF hits = {} THEN 0 ELSE CHOOSE i \in hits : \A j \in hits : i <= j

\* append to a buffer that keeps every entry (no results[1:])
AppendResultUnbounded(buf, res) == Append(buf, res)

\* if len(es.results) >= 100 { es.results = es.results[1:] }; append
AppendResult(buf, res) ==
    Append(IF Len(buf) >= ResultsCap THEN Tail(buf) ELSE buf, res)

UpdateResult(res0) ==
    /\ resUpdates < MaxUpdates
    /\ resUpdates' = resUpdates + 1
    /\ \E res \in {ClearFinished(res0)} :
       \E i \in {FindResult(results, res)} :
          results' = IF i # 0
                     THEN [results EXCEPT ![i] = res]
                     ELSE AppendResult(results, res)
    /\ UNCHANGED exceptResultVars

\* a server that starts, or one that has recorded many runs
InitResults ==
    /\ SchedInit
    /\ agentState = "enabled"
    /\ TinyLogInit
    /\ taskTimeout = [t \in DbTasks |-> 0]
    /\ ExecInit
    /\ agentConnected = TRUE
    /\ RemoteInit
    /\ CronInit
    /\ OutputInit
    /\ AgentTasksInit
    /\ ConnInit
    /\ results \in {<<>>, LongHistory}
    /\ resUpdates = 0
    /\ ReloadInit
    /\ ConfigInit
    /\ CallerInit
    /\ HeartbeatInit

NextResults == \E res \in ExecutionResults : UpdateResult(res)

SpecResults == InitResults /\ [][NextResults]_vars

(***************************************************************************)
(* Properties of the Scheduler and of the concurrency gate                 *)
(***************************************************************************)
\* the request is in the buffered channel
InQueue(r) == \E i \in 1..Len(taskQueue) : taskQueue[i] = r

\* the request is inside Scheduler.executeTask
InExecuteTask(r) ==
    reqs[r].pc \in {"executing", "prefailed", "prepared", "running", "returned", "unwinding"}

\* number of terminal handler calls (OnTaskCompleted + OnTaskFailed) made for r
TerminalCalls(r) == calls[r].completed + calls[r].failed

\* C1: every request that entered executeTask got exactly one of
\* OnTaskCompleted / OnTaskFailed, exactly once: never more than one call, and
\* exactly one when executeTask has returned
C1_ExactlyOneTerminalHandler ==
    \A r \in Reqs :
        /\ TerminalCalls(r) <= 1
        /\ reqs[r].pc = "done" => TerminalCalls(r) = 1

\* a run of a task is in flight: it passed the gate in AddRunningGo (its log
\* row exists, the gate did not reject it, its start was not rolled back) and
\* no terminal handler has been invoked for it
InFlight(r) ==
    /\ reqs[r].logID # 0
    /\ reqs[r].rejectedBy # "gate"
    /\ reqs[r].pc # "prefailed"
    /\ TerminalCalls(r) = 0

C4_TableEmptyWhenStopReturns ==
    [][(stopPc = "waiting" /\ stopPc' = "returned") =>
          \A t \in TaskIDs : runningTasks'[t] = NoReq]_vars

\* C5 as stated: a request that was queued when StopTask was called for its
\* task is no longer in the queue
C5_StopRemovesQueued ==
    \A r \in Reqs : reqs[r].stopSeen => ~InQueue(r)

\* C5 (amended): a request that was queued when StopTask was called for its
\* task stays in the queue, untouched, until a worker takes it
C5_StopKeepsQueued ==
    \A r \in Reqs :
        reqs[r].stopSeen =>
            /\ InQueue(r)
            /\ reqs[r].pc = "queued"
            /\ reqs[r].ctx = "none"
            /\ TerminalCalls(r) = 0

\* StopTask was called for the task of a request that is waiting in the queue
C5_Witness ==
    \E r \in Reqs : reqs[r].stopSeen /\ InQueue(r)

\* C6: a call of Enqueue or EnqueueOrExecute made while the queue holds
\* QueueSize requests leaves the queue unchanged and fires no OnTaskScheduled;
\* Enqueue returns the queue-full error, EnqueueOrExecute enters executeTask
\* for the request
C6_FullQueue ==
    [][(Len(taskQueue) >= QueueSize /\ nextReq' = nextReq + 1
            /\ reqs'[nextReq].api \in {"enqueue", "orexec"}) =>
          /\ taskQueue' = taskQueue
          /\ calls' = calls
          /\ reqs'[nextReq].api = "enqueue" =>
                reqs'[nextReq].pc = "rejected" /\ reqs'[nextReq].rejectedBy = "queue"
          /\ reqs'[nextReq].api = "orexec" => reqs'[nextReq].pc = "executing"]_vars

\* Enqueue was refused with the queue full, and the queue still holds the
\* request that filled it
C6_Witness ==
    /\ Len(taskQueue) = QueueSize
    /\ \E r \in Reqs : reqs[r].api = "enqueue" /\ reqs[r].pc = "rejected"
                       /\ calls[r].scheduled = 0

\* C7 as stated: at most WorkerCount requests are inside executeTask
C7_AtMostWorkerCountExecuting ==
    Cardinality({r \in Reqs : InExecuteTask(r)}) <= WorkerCount

\* C7 (amended): at most WorkerCount of the requests inside executeTask were
\* taken from the queue by a worker; the runs started by the fallback
\* goroutine of EnqueueOrExecute or by ExecuteSync come on top of them
C7_AtMostWorkerCountFromQueue ==
    Cardinality({r \in Reqs : InExecuteTask(r) /\ reqs[r].via = "worker"}) <= WorkerCount

\* every worker is executing a request and one more request is executing
\* outside the pool
C7_Witness ==
    /\ Cardinality({r \in Reqs : InExecuteTask(r) /\ reqs[r].via = "worker"}) = WorkerCount
    /\ \E r \in Reqs : InExecuteTask(r) /\ reqs[r].via \in {"fallback", "sync"}

(***************************************************************************)
(* Properties of the TinyLog                                               *)
(***************************************************************************)
\* s is valid UTF-8
IsValidUTF8(s) == ToUTF8(s) = s

\* s is the beginning of a valid UTF-8 string: valid encodings, possibly
\* followed by the first bytes of one more
RECURSIVE ValidPrefixFrom(_, _)
ValidPrefixFrom(s, i) ==
    IF i > Len(s) THEN TRUE
    ELSE LET n == ValidRuneAt(s, i)
         IN  IF n > 0 THEN ValidPrefixFrom(s, i + n)
             ELSE ~FullRune(SubSeq(s, i, Len(s)))

ValidPrefix(s) == ValidPrefixFrom(s, 1)

\* the chunks of a channel buffer, one after the other
RECURSIVE Concat(_)
Concat(chunks) == IF chunks = <<>> THEN <<>> ELSE Head(chunks) \o Concat(Tail(chunks))

\* C8: once the TinyLog is closed nothing a later Write brings is kept (no
\* buffered byte, no held byte) and no channel made by Subscribe, before or
\* after Close, is still open
C8_ClosedLogHasNoOpenChannel ==
    tlClosed =>
        /\ tlWriter = <<>>
        /\ tlRemainder = <<>>
        /\ \A c \in Chans : tlChans[c].state # "open"

C10_CompleteCodepoints ==
    ValidPrefix(tlInput) =>
        /\ ~tlClosed => /\ tlFile \o tlWriter \o tlRemainder = tlInput
                        /\ tlRemainder = <<>> \/ ~FullRune(tlRemainder)
                        /\ \A c \in Chans : tlChans[c].state = "open" =>
                              Concat(tlChans[c].buf) = tlFile \o tlWriter
        /\ IsValidUTF8(tlLastChunk)
        /\ \A c \in Chans : \A k \in 1..Len(tlChans[c].buf) :
              /\ IsValidUTF8(tlChans[c].buf[k])
              /\ ~tlClosed \/ IsValidUTF8(tlInput) =>
                    \A j \in 1..Len(tlChans[c].buf[k]) : tlChans[c].buf[k][j] \in Utf8Alphabet
        /\ (tlClosed /\ IsValidUTF8(tlInput)) =>
              /\ tlFile = tlInput
              /\ \A c \in Chans : tlChans[c].state = "closed" =>
                    Concat(tlChans[c].buf) = tlInput

\* 'A' was written and sent to a subscriber, and three of the four bytes of a
\* codepoint are held back
C10_Witness ==
    /\ ~tlClosed
    /\ tlInput = <<65, 240, 169, 169>>
    /\ tlRemainder = <<240, 169, 169>>
    /\ tlWriter = <<65>>
    /\ \E c \in Chans : tlChans[c].buf = << <<65>> >>

(***************************************************************************)
(* Properties of a local run: status, stop, heartbeat, errors              *)
(***************************************************************************)
\* executeTask reports the run of r: it builds the result and calls the
\* terminal handler, which saves the status on the run's log row
Reports(r) ==
    /\ reqs[r].pc = "returned"
    /\ reqs'[r].pc = "unwinding"
    /\ reqs[r].logID # 0

\* the status this step saved on the log row of r
SavedStatus(r) == taskLogs'[reqs[r].logID].status

\* the child of r did not run to a natural exit because a context had ended
EndedByContext(r) == child[r].end \in {"killed", "startfail"}

\* why the run of r ended, as a status: its deadline, a stop, or the exit code
StatusOfCause(r) ==
    IF EndedByContext(r) /\ child[r].ctxAtEnd = "deadline" THEN "timeout"
    ELSE IF EndedByContext(r) /\ child[r].ctxAtEnd = "canceled" THEN "cancelled"
    ELSE IF child[r].end = "killed" /\ child[r].execCtx = "deadline" THEN "timeout"
    ELSE IF child[r].end = "exit" /\ child[r].exitCode = 0 THEN "success"
    ELSE "failed"

\* the cause is not in doubt: the context did not change after the child was
\* over, and a child that exited on its own did so while the context was live
CauseIsClear(r) ==
    /\ reqs[r].ctx = child[r].ctxAtEnd
    /\ child[r].end = "exit" => child[r].ctxAtEnd = "none"

\* C11: the status reported for a run is timeout when the run ended because
\* its deadline expired (the request's timeout, or the default of 30 minutes
\* when the request has none), cancelled when a stop cancelled its context,
\* success when the child exited with code 0, and failed otherwise; stated for
\* the runs whose cause is not in doubt
C11_StatusFollowsCause ==
    [][\A r \in Reqs :
          Reports(r) /\ CauseIsClear(r) => SavedStatus(r) = StatusOfCause(r)]_vars

\* C12: a stop that cancels the context after the child has exited on its own
\* and before the run is deregistered does not change the reported status:
\* it is the status of the natural exit
C12_LateStopIsNoOp ==
    [][\A r \in Reqs :
          Reports(r) /\ child[r].end = "exit" /\ child[r].ctxAtEnd = "none"
                     /\ reqs[r].ctx = "canceled"
              => SavedStatus(r) = IF child[r].exitCode = 0 THEN "success" ELSE "failed"]_vars

\* C15: the cancel function of a run is registered under its log id too:
\* StopTaskExecution(l) for the log id of a local run that is registered and
\* running cancels the context of that run and reports that it found it
C15_StopLogCancelsRun ==
    [][\A l \in LogIDs : \A r \in Reqs :
          /\ StopTaskExecution(l)
          /\ reqs[r].logID = l /\ ~IsRemote(reqs[r].task)
          /\ reqs[r].pc = "running" /\ runningTasks[reqs[r].task] = r
          => reqs'[r].ctx # "none" /\ stopRet' = "stopped"]_vars

\* C17: a heartbeat hook that panicked during a run did not abort the run:
\* the process that waits for the child and calls the terminal handler is up
C17_HeartbeatPanicDoesNotAbort ==
    \A r \in Reqs : child[r].hb = "panicked" => process = "up"

\* C18: what execute returned for a local run is a result with a non-nil
\* error exactly when the child could not be started; a child that ran and
\* exited non-zero, or was killed, gives a result and a nil error
C18_ErrorOnlyWhenStartFailed ==
    \A r \in Reqs :
        reqs[r].pc = "returned" /\ child[r].state = "ended"
            => /\ HasResult(reqs[r].outcome)
               /\ HasError(reqs[r].outcome) <=> child[r].end = "startfail"

(***************************************************************************)
(* Properties of a remote run                                              *)
(***************************************************************************)
\* this step sent frame f to the agent
Sends(f) == agentInbox' = Append(agentInbox, f)

\* this step is a return of ExecuteRemoteForScheduler for r after the waiter
\* was registered
RemoteReturns(r) == remotePc[r] \in {"registered", "waiting"} /\ remotePc'[r] = "none"

\* C13: the waiter of a log id is registered when the execute frame for it is
\* sent, and after every return of ExecuteRemoteForScheduler that follows the
\* registration (send failure, result, timeout) it is no longer registered
C13_WaiterRegisteredThenRemoved ==
    [][\A r \in Reqs :
          /\ Sends([type |-> "execute", log |-> reqs[r].logID])
                 => waiters[reqs[r].logID] # "none"
          /\ RemoteReturns(r) => waiters'[reqs[r].logID] = "none"]_vars

\* a remote run has returned on the timeout path, another frame was sent:
\* its waiter is gone
C13_Witness ==
    \E r \in Reqs :
        /\ IsRemote(reqs[r].task)
        /\ reqs[r].pc = "returned"
        /\ reqs[r].outcome = "result_err"
        /\ waiters[reqs[r].logID] = "none"

\* C14: a remote run for which no result frame arrived within the task's
\* timeout is reported with status failed, and failed is the status saved on
\* its log row
C14_RemoteTimeoutIsFailed ==
    [][\A r \in Reqs :
          Reports(r) /\ IsRemote(reqs[r].task) /\ reqs[r].outcome = "result_err"
              => SavedStatus(r) = "failed"]_vars

\* C16: stopping an agent-bound run sends a stop frame keyed by its log id,
\* and an agent that reads a stop frame for a run it is running cancels it
C16_AgentCancelsOnStop ==
    [][/\ \A l \in LogIDs :
             /\ StopTaskExecution(l)
             /\ l <= Len(taskLogs)
             /\ taskLogs[l].status = "running" /\ IsRemote(taskLogs[l].task)
             /\ agentConnected
             => Sends([type |-> "stop", log |-> l])
       /\ \A l \in LogIDs :
             /\ AgentReceive
             /\ Head(agentInbox) = [type |-> "stop", log |-> l]
             /\ agentRuns[l] = "running"
             => agentRuns'[l] = "cancelled"]_vars

(***************************************************************************)
(* Properties of the CronManager                                           *)
(***************************************************************************)
\* the cron entries of task t
EntriesOf(t) == {e \in cronEntries : e.task = t}

\* at most one cron entry per task, and every entry of the cron library is
\* the one the entry table references for its task
CronConsistent ==
    \A e \in cronEntries : entryMap[e.task] = e.id

\* C19: AddTask(t) right after an AddTask(t) with the same schedule leaves
\* exactly one cron entry for the task, with the schedule and the next fire
\* time it had after the first call; and after every AddTask / RemoveTask
\* there is at most one cron entry per task and no entry of the cron library
\* that the entry table does not reference
C19_AddTaskIdempotent ==
    [][/\ CronConsistent'
       /\ \A t \in DbTasks : \A expr \in CronExprs :
             AddTask(t, expr) /\ Repeats(t, expr)
             => /\ Cardinality(EntriesOf(t)') = 1
                /\ \A e \in EntriesOf(t) : \E f \in EntriesOf(t)' :
                      f.schedule = e.schedule /\ f.next = e.next]_vars

\* a task was registered twice in a row with the same schedule, at a time
\* when the schedule had matched before, and the other task has an entry too
C19_Witness ==
    /\ lastCall.op = "AddTask" /\ lastCall.again
    /\ \E e \in EntriesOf(lastCall.task) : e.next > Parse(e.schedule)
    /\ \A t \in DbTasks : entryMap[t] # 0

\* C20: an invalid cron expression changes nothing: ValidateCron leaves the
\* dispatcher as it was, and AddTask with a malformed expression returns an
\* error and leaves the entry table and the cron entries as they were
C20_InvalidCronNoStateChange ==
    [][/\ \A expr \in CronExprs :
             ValidateCron(expr) => UNCHANGED <<cronEntries, entryMap, nextEntryID>>
       /\ \A t \in DbTasks : \A expr \in CronExprs :
             AddTask(t, expr) /\ Parse(expr) = 0
                 => cronRet' = "error" /\ UNCHANGED <<cronEntries, entryMap>>]_vars

(***************************************************************************)
(* Properties of the handlers: running-go tokens                           *)
(***************************************************************************)
\* how often goroutine id g is in a running-go list
Occurrences(goids, g) == Cardinality({i \in 1..Len(goids) : goids[i] = g})

\* this step invokes the terminal handler (OnTaskCompleted or OnTaskFailed)
\* for r
TerminalHandlerFires(r) ==
    calls'[r].completed + calls'[r].failed = TerminalCalls(r) + 1

\* C21: when the terminal handler fires for a run that passed the gate,
\* exactly the token AddRunningGo appended for that run leaves the task's
\* running-go: one occurrence of the run's goroutine id, and nothing else
C21_ExactlyOwnTokenRemoved ==
    [][\A r \in Reqs :
          TerminalHandlerFires(r) /\ InFlight(r) /\ reqs[r].goid # 0
          => \A g \in 1..(WorkerCount + MaxReqs) :
                Occurrences(runningGo'[reqs[r].task], g) =
                    Occurrences(runningGo[reqs[r].task], g)
                        - (IF g = reqs[r].goid THEN 1 ELSE 0)]_vars

(***************************************************************************)
(* Properties of the child's output                                        *)
(***************************************************************************)
\* C22: when ExecuteWithHooks returns, every byte the child wrote before it
\* exited has been written to the output sink, in PTY mode and in pipe mode
C22_OutputDrainedBeforeReturn ==
    outPc = "returned" => outSink = outProduced

(***************************************************************************)
(* Properties of the TinyLog's subscribers                                 *)
(***************************************************************************)
\* this step is a Write call that returned without an error
WriteAccepted == tlInput' # tlInput /\ tlRet' = "ok"

\* C23: a Write returns whatever the subscribers' channels hold: a subscriber
\* whose channel holds 100 chunks is skipped for the chunk; and a channel only
\* ever changes by losing its first chunk to the reader or by getting the
\* chunk just written at its end, so what a subscriber receives is a
\* subsequence of the written chunks, in order and without duplicates
C23_SlowSubscriberSkipped ==
    [][\A c \in Chans :
          LET buf == tlChans[c].buf
              after == tlChans'[c].buf
          IN  /\ Len(after) <= SubChanCap
              /\ (WriteAccepted /\ Len(buf) = SubChanCap) => after = buf
              /\ \/ after = buf
                 \/ buf # <<>> /\ after = Tail(buf)
                 \/ tlLastChunk' # <<>> /\ after = Append(buf, tlLastChunk')]_vars

\* the first subscriber's channel is full with the 99 chunks it had and "B",
\* nothing was received, and a later Write was accepted
C23_Witness ==
    /\ Len(tlChans[1].buf) = SubChanCap
    /\ \A i \in 1..Backlog : tlChans[1].buf[i] = <<65>>
    /\ tlChans[1].buf[SubChanCap] = <<66>>
    /\ Len(tlInput) = SubChanCap + 1
    /\ tlInput[SubChanCap + 1] = 67
    /\ tlRet = "ok"

(***************************************************************************)
(* Properties of the agent's task registry                                 *)
(***************************************************************************)
\* updateTasks has gone through a whole frame
FrameProcessed == updTodo = {}

\* C24: after a tasks frame was processed the cache holds exactly the tasks
\* of the frame, as the frame gives them, and a task id has a cron entry if
\* and only if its task is in the cache and enabled
C24_CacheAndCronFollowFrame ==
    FrameProcessed =>
        \A t \in DbTasks :
            /\ agentCache[t] = updFrame[t]
            /\ entryMap[t] # 0 <=> (agentCache[t] # NoTask /\ agentCache[t].enabled)

(***************************************************************************)
(* Properties of the agent's heartbeat loops                               *)
(***************************************************************************)
\* the heartbeat loop started for connection c is active: it is in its loop
\* and nothing it waits on tells it to stop
ActiveLoop(c) ==
    /\ hbLoops[c].pc = "looping"
    /\ ~agentStopped
    /\ hbLoops[c].ch \notin closedChs

\* C25: at most one heartbeat loop is active at a time, and the heartbeat loop
\* started for a connection sends no heartbeat on a later connection
C25_OneHeartbeatLoopPerConnection ==
    /\ Cardinality({c \in Conns : ActiveLoop(c)}) <= 1
    /\ \A c \in Conns : hbLoops[c].sentOn \subseteq {c}


\* the request was handed to Enqueue or EnqueueOrExecute and accepted (queued,
\* or run by the fallback goroutine)
AcceptedByEnqueue(r) ==
    /\ reqs[r].api \in {"enqueue", "orexec"}
    /\ reqs[r].pc \notin {"new", "rejected"}

\* C26: when the terminal handler fires for an accepted request, the request
\* still has the task-id, the log-id and the metadata it was accepted with: a
\* request is built with LogID 0 and without a "goid" in its metadata
C26_RequestAsEnqueued ==
    [][\A r \in Reqs :
          TerminalHandlerFires(r) /\ AcceptedByEnqueue(r)
              => /\ reqs[r].logID = NewRequest.logID
                 /\ reqs[r].goid = NewRequest.goid]_vars


\* what holds of es.results in every state
ResultBufferInvariant ==
    /\ Len(results) <= ResultsCap
    /\ \A i, j \in 1..Len(results) :
          results[i].logID = results[j].logID /\ results[i].logID # 0 => i = j
    /\ \A i \in 1..Len(results) :
          results[i].status \in FinishedStatuses => results[i].output = ""

\* one UpdateResult call replaced the entry at i in place
ReplacedInPlace(i) ==
    /\ results[i].logID # 0
    /\ results' = [results EXCEPT ![i] = results'[i]]
    /\ results'[i].logID = results[i].logID

\* one UpdateResult call appended an entry, dropping the oldest of a full buffer
AppendedDroppingOldest ==
    /\ Len(results') >= 1
    /\ LET new == results'[Len(results')]
       IN  /\ results' = Append(IF Len(results) = ResultsCap THEN Tail(results)
                                                               ELSE results, new)
           /\ new.logID # 0 => \A i \in 1..Len(results) : results[i].logID # new.logID

\* C27: the result buffer holds at most 100 entries and at most one entry per
\* non-zero log-id, finished entries have an empty Output, and every
\* UpdateResult call either replaces the entry of its log-id in place or
\* appends, dropping the oldest entry when the buffer is full
C27_ResultBufferBounded ==
    /\ []ResultBufferInvariant
    /\ [][resUpdates' # resUpdates
             => \/ \E i \in 1..Len(results) : ReplacedInPlace(i)
                \/ AppendedDroppingOldest]_vars

\* a long history took two new entries, which cost it its oldest entry, and
\* one of its entries was replaced where it was by a finished result
C27_Witness ==
    /\ resUpdates = MaxUpdates
    /\ Len(results) = ResultsCap
    /\ results[1] = LongHistory[2]
    /\ \E i \in 1..Len(results) : results[i].status \in FinishedStatuses \ {"success"}


\* the worker goroutines that are alive: a worker lives until it returns on
\* stopCh, and no goroutine outlives the process
LiveWorkers == IF process = "up" THEN {w \in Workers : wreq[w] # Exited} ELSE {}

\* a panic was raised while a worker was processing r; with ExecuteWithHooks
\* as the executor the panic is the one of the heartbeat hook
PanicOnWorker(r) == reqs[r].via = "worker" /\ child[r].hb = "panicked"

\* C28: after a panic raised while a worker processed a request, and as long
\* as Stop was not called, all worker-count workers are alive
C28_WorkersSurvivePanic ==
    (\E r \in Reqs : PanicOnWorker(r)) /\ ~stopCh
        => Cardinality(LiveWorkers) = WorkerCount


\* a request a worker took from the queue enters executeTask in this step
BeginsFromQueue(r) == reqs[r].pc = "limited" /\ reqs'[r].pc = "executing"

\* the caller of ExecuteSync enters executeTask in this step
BeginsSync(r) == reqs[r].pc = "new" /\ reqs'[r].pc = "executing" /\ reqs'[r].api = "sync"

RunEnded(r) ==
    /\ reqs[r].pc = "done"
    /\ reqs[r].logID # 0
    /\ reqs[r].rejectedBy # "gate"

\* C30: once the run of a request has ended, the TaskLog row OnTaskExecuting
\* created for it has a terminal status and its LiveLog is out of the index
C30_RowTerminalAfterRun ==
    \A r \in Reqs :
        RunEnded(r) => /\ taskLogs[reqs[r].logID].status \in FinishedStatuses
                       /\ reqs[r].logID \notin activeLogs


\* the step in which the process boots
Boots == process = "crashed" /\ process' = "up"

\* C31: when the process has booted, running_go of every task is empty, and
\* both gates (CheckConcurrency, AddRunningGo) let a dispatch of the task pass
C31_BootClearsRunningGo ==
    [][Boots => \A t \in DbTasks : /\ runningGo'[t] = <<>>
                                    /\ CheckConcurrency(t)'
                                    /\ GateAllows(t)']_vars

\* a run of the concurrency = 0 task was cut off by a crash (its row is still
\* running), and after the boot the next dispatch of the task holds a token
C31_Witness ==
    /\ process = "up"
    /\ Len(taskLogs) = 2
    /\ taskLogs[1].task = LocalTask /\ taskLogs[1].status = "running"
    /\ reqs[1].pc = "done" /\ TerminalCalls(1) = 0
    /\ reqs[2].pc = "prepared" /\ reqs[2].task = LocalTask
    /\ Len(runningGo[LocalTask]) = 1


\* a request enters the queue of Scheduler 1 in this step
Queued(r) == ~InQueue(r) /\ InQueue(r)'

\* C32: after Reload, a request the cron dispatcher queues is in the queue of
\* the scheduler es.scheduler names, and that queue has a worker reading it
C32_CronReachesRunningScheduler ==
    [][\A r \in Reqs :
          esScheduler = 2 /\ Queued(r)
              => /\ CronManagerScheduler = esScheduler
                 /\ \E w \in Workers : wreq'[w] # Exited]_vars


\* C33: after Scheduler.Reload the config has at least one worker, a queue
\* of at least one slot and a positive rate interval, as NewScheduler ensures
C33_ReloadKeepsConfigBounds ==
    cfgReloaded => /\ schedConfig.workerCount > 0
                   /\ schedConfig.queueSize > 0
                   /\ schedConfig.rateInterval > 0


\* C34: while a run is between its registration and the return of its
\* executor, the entry of its task-id in runningTasks is its own cancel, so
\* that StopTask with that task-id cancels it
C34_RunningRunHasCancelEntry ==
    \A r \in Reqs : reqs[r].pc = "running" => runningTasks[reqs[r].task] = r


\* s.handler.OnTaskExecuting(req) is called in this step
OnTaskExecutingCalled(r) == reqs[r].pc = "executing" /\ reqs'[r].pc # "executing"

\* C35: when OnTaskExecuting is called for a request that went through the
\* queue, OnTaskScheduled has been called for it
C35_ScheduledBeforeExecuting ==
    [][\A r \in Reqs :
          OnTaskExecutingCalled(r) /\ reqs[r].via = "worker"
              => calls[r].scheduled >= 1]_vars


\* the heartbeat hook of r is called in this step
HeartbeatCalled(r) == hbPc[r] = "ticked" /\ hbPc'[r] = "waiting"

\* C36: the heartbeat hook of a run is called only as long as no terminal
\* handler was called for the run
C36_NoHeartbeatAfterTerminal ==
    [][\A r \in Reqs : HeartbeatCalled(r) => TerminalCalls(r) = 0]_vars


\* the agent takes the execute frame for log id l off its connection
ReceivesExecute(l) ==
    /\ agentInbox # <<>>
    /\ Head(agentInbox) = [type |-> "execute", log |-> l]
    /\ agentInbox' = Tail(agentInbox)

\* C37: every execute frame the agent receives starts a run for its log id,
\* the run whose end sends the task-result with that log id
C37_ExecuteFrameStartsRun ==
    [][\A l \in LogIDs : ReceivesExecute(l) => agentRuns'[l] = "running"]_vars


\* C38: once Agent.Stop was called the agent holds no WebSocket connection,
\* wherever in the connect / read / sleep cycle Stop came
C38_NoConnectionAfterStop == agentStopped => wsConn = 0


\* close(ch) is executed on c in this step: Unsubscribe and Close close the
\* channels they take out of l.subscribers, and nothing else calls close
ClosesChan(c) == IsSubscribed(c) /\ ~(IsSubscribed(c))'

\* a chunk is sent on c in this step
SendsOnChan(c) == Len(tlChans'[c].buf) > Len(tlChans[c].buf)

\* every channel in l.subscribers is open and is there once
SubscribersOpen ==
    \A i \in 1..Len(tlSubscribers) :
        /\ tlChans[tlSubscribers[i]].state = "open"
        /\ \A j \in 1..Len(tlSubscribers) : tlSubscribers[j] = tlSubscribers[i] => j = i

\* C39: under every interleaving of Write, Subscribe, Unsubscribe, Close and
\* CompressAndCleanup no subscriber channel is closed twice and no chunk is
\* sent on a channel that was closed
C39_NoDoubleCloseNoSendOnClosed ==
    /\ []SubscribersOpen
    /\ [][\A c \in Chans :
             /\ ClosesChan(c) => tlChans[c].state = "open"
             /\ SendsOnChan(c) => tlChans[c].state = "open"]_vars

\* one subscriber was unsubscribed and the other closed by Close, both after
\* chunks were sent; the log was compressed and a late Write was refused
C39_Witness ==
    /\ tlClosed
    /\ tlPath = "removed"
    /\ tlRet = "ErrClosed"
    /\ tlSubscribers = <<>>
    /\ \A c \in Chans : tlChans[c].state = "closed"
    /\ Len(tlChans[1].buf) = 1
    /\ Len(tlChans[2].buf) = 2


\* the workers that hold r
Holders(r) == {w \in Workers : wreq[w] = r}

\* r is in the queue, at one place, and no worker has it; or it was taken
\* and exactly one worker has it
QueuedOnceHeldOnce ==
    \A r \in Reqs :
        /\ InQueue(r) <=> reqs[r].pc = "queued"
        /\ \A i, j \in 1..Len(taskQueue) : taskQueue[i] = taskQueue[j] => i = j
        /\ reqs[r].pc = "queued" => Holders(r) = {}
        /\ reqs[r].pc = "limited" => Cardinality(Holders(r)) = 1

\* executeTask(r) is called in this step
EntersExecuteTask(r) == reqs[r].pc # "executing" /\ reqs'[r].pc = "executing"

\* r is past the call of executeTask, or was never queued
PastEntry(r) == reqs[r].pc \notin {"new", "queued", "limited"}

\* a queued request goes from the queue to one worker and from there into
\* executeTask, and never back
OnceThroughQueue(r) ==
    /\ reqs[r].pc = "queued" => reqs'[r].pc \in {"queued", "limited"}
    /\ reqs[r].pc = "limited" => reqs'[r].pc \in {"limited", "executing"}
    /\ reqs[r].pc = "limited" /\ reqs'[r].pc = "limited" => Holders(r)' = Holders(r)
    /\ PastEntry(r) => PastEntry(r)' /\ ~EntersExecuteTask(r)

====
